---- MODULE Spec2Model ----
(***************************************************************************)
(* alpaca-switch: the Router that maps flat global switch IDs onto         *)
(* (backend, local ID) pairs, the two hardware backends behind it (Xiaomi  *)
(* Mi plugs, Hikvision IR illuminators) and the ASCOM Alpaca HTTP server   *)
(* in front of it.                                                         *)
(*                                                                         *)
(* Representation of Go values:                                            *)
(*  - a string is a sequence of text pieces; concatenation is \o and ""    *)
(*    is <<>>.  Texts that the code scans character by character (the      *)
(*    numbers handed to strconv.Atoi / ParseFloat) have one piece per      *)
(*    character; texts that are only compared or copied as a whole are     *)
(*    kept in one piece.                                                   *)
(*  - an int (64 bit) is [neg, mag] with mag four base-65536 limbs, least  *)
(*    significant first; a uint32 is two such limbs.  TLC's own integers   *)
(*    stop at 2^31-1, so the widths the code has are kept this way.        *)
(*  - a float64 is an integer number of tenths (every value that occurs    *)
(*    has at most one fractional digit).                                   *)
(*  - an error is [nil, msg].                                              *)
(***************************************************************************)
EXTENDS Integers, Sequences, FiniteSets, Bags, TLC

VARIABLES
    bk,                   \* the backend objects, in the order handed to NewRouter
    hw,                   \* hw[b][i]: the real power / IR state of the device
    refresh,              \* refresh[b][i]: Mi background pollers in flight
    router,               \* the Router struct (NoRouter before NewRouter returns)
    calls,                \* SwitchBackend method calls made by the last operation
    ret,                  \* what the last Router operation returned
    serverTransactionID,  \* Server.serverTransactionID (uint32)
    inflight,             \* the bag of handlers that have yet to send their response
    resp,                 \* the response written in the last step, if any
    issued,               \* every ServerTransactionID sent so far, in order
    nreq,                 \* requests accepted so far
    apiPort,              \* cfg.AlpacaPort, the port StartDiscovery is given
    listening,            \* StartDiscovery has reached its receive loop
    lanIP,                \* StartDiscovery's lanIP
    reply,                \* StartDiscovery's reply text
    recentReplies,        \* StartDiscovery's recentReplies map
    now,                  \* the clock time.Now reads, in seconds
    datagram,             \* what the last conn.ReadFrom returned
    replies,              \* every datagram conn.WriteTo has sent, in order
    nread                 \* calls of conn.ReadFrom that have returned

vars == <<bk, hw, refresh, router, calls, ret, serverTransactionID,
          inflight, resp, issued, nreq,
         apiPort, listening, lanIP, reply, recentReplies, now, datagram,
         replies, nread>>

DiscoveryVars == <<apiPort, listening, lanIP, reply, recentReplies, now,
                   datagram, replies, nread>>

(***************************************************************************)
(* Bounds of the model.                                                    *)
(***************************************************************************)
MaxBackends == 3     \* NewRouter is tried on every list of up to MaxBackends backends
MaxCount == 2        \* ... each owning 0..MaxCount switches
MaxRequests == 2     \* HTTP requests accepted in one run
MaxInFlight == 2     \* handlers running at the same time

(***************************************************************************)
(* Go integers.                                                            *)
(***************************************************************************)
\* limbs are 16 bits wide
Base == 256 * 256

DigitChars == <<"0", "1", "2", "3", "4", "5", "6", "7", "8", "9">>

IsDigit(c) == \E d \in 1..10 : DigitChars[d] = c

DigitVal(c) == (CHOOSE d \in 1..10 : DigitChars[d] = c) - 1

ZeroMag == <<0, 0, 0, 0>>

\* mag * m + d on four limbs; carry is what does not fit in 64 bits
MulAdd(mag, m, d) ==
    LET t1 == mag[1] * m + d
        t2 == mag[2] * m + (t1 \div Base)
        t3 == mag[3] * m + (t2 \div Base)
        t4 == mag[4] * m + (t3 \div Base)
    IN  [mag |-> <<t1 % Base, t2 % Base, t3 % Base, t4 % Base>>,
         carry |-> t4 \div Base]

\* mag \div 10 and mag % 10, from the most significant limb down
DivMod10(mag) ==
    LET c4 == mag[4]
        c3 == (c4 % 10) * Base + mag[3]
        c2 == (c3 % 10) * Base + mag[2]
        c1 == (c2 % 10) * Base + mag[1]
    IN  [q |-> <<c1 \div 10, c2 \div 10, c3 \div 10, c4 \div 10>>, r |-> c1 % 10]

\* the int with a small value k
GoInt(k) ==
    IF k < 0 THEN [neg |-> TRUE, mag |-> <<-k, 0, 0, 0>>]
    ELSE [neg |-> FALSE, mag |-> <<k, 0, 0, 0>>]

\* n < 0
IntNegative(n) == n.neg /\ n.mag # ZeroMag

\* n >= k for an int n and a small k >= 0 (a len(...))
IntGeLen(n, k) ==
    /\ ~IntNegative(n)
    /\ \/ n.mag[2] # 0 \/ n.mag[3] # 0 \/ n.mag[4] # 0
       \/ n.mag[1] >= k

\* the value of an int known to lie in 0..65535 (a slice subscript)
Subscript(n) == n.mag[1]

\* uint32(n): the low 32 bits of the two's complement representation
Uint32(n) ==
    IF ~IntNegative(n) THEN <<n.mag[1], n.mag[2]>>
    ELSE LET lo == (Base - n.mag[1]) % Base
             borrow == IF n.mag[1] = 0 THEN 0 ELSE 1
         IN  <<lo, (2 * Base - n.mag[2] - borrow) % Base>>

\* a uint32 with a small value k
U32(k) == <<k, 0>>

\* a < b on uint32
U32Less(a, b) == a[2] < b[2] \/ (a[2] = b[2] /\ a[1] < b[1])

RECURSIVE ParseUintFrom(_, _, _)
\* strconv.ParseUint's digit loop over s[i..]: the value, or a syntax / range error
ParseUintFrom(s, i, acc) ==
    IF i > Len(s) THEN [mag |-> acc, err |-> "nil"]
    ELSE IF ~IsDigit(s[i]) THEN [mag |-> ZeroMag, err |-> "syntax"]
    ELSE LET step == MulAdd(acc, 10, DigitVal(s[i]))
         IN  IF step.carry # 0 THEN [mag |-> ZeroMag, err |-> "range"]
             ELSE ParseUintFrom(s, i + 1, step.mag)

\* strconv.Atoi (base 10, 64 bit): [n, err]
Atoi(s) ==
    IF s = <<>> THEN [n |-> GoInt(0), err |-> "syntax"]
    ELSE LET signed == s[1] = "+" \/ s[1] = "-"
             neg == s[1] = "-"
             first == IF signed THEN 2 ELSE 1
         IN  IF first > Len(s) THEN [n |-> GoInt(0), err |-> "syntax"]
             ELSE LET u == ParseUintFrom(s, first, ZeroMag)
                      top == u.mag[4] >= 32768
                      minInt == u.mag = <<0, 0, 0, 32768>>
                  IN  IF u.err # "nil" THEN [n |-> GoInt(0), err |-> u.err]
                      ELSE IF top /\ ~(neg /\ minInt)
                           THEN [n |-> GoInt(0), err |-> "range"]
                      ELSE [n |-> [neg |-> neg, mag |-> u.mag], err |-> "nil"]

RECURSIVE FormatUint(_)
\* the decimal digits of a magnitude, most significant first ("" for 0)
FormatUint(mag) ==
    IF mag = ZeroMag THEN <<>>
    ELSE LET d == DivMod10(mag) IN FormatUint(d.q) \o <<DigitChars[d.r + 1]>>

\* fmt's %d of an int
Itoa(n) ==
    IF n.mag = ZeroMag THEN <<"0">>
    ELSE (IF n.neg THEN <<"-">> ELSE <<>>) \o FormatUint(n.mag)

\* cfg.AlpacaPort when the configuration leaves it 0
DefaultAlpacaPort == GoInt(11111)

(***************************************************************************)
(* Go floats, booleans and errors.                                         *)
(***************************************************************************)
\* float64(n) for a small integer n, in tenths
Float64(n) == n * 10

\* strconv.ParseBool
ParseBool(s) ==
    IF s \in {<<"1">>, <<"t">>, <<"T">>, <<"TRUE">>, <<"true">>, <<"True">>}
    THEN [v |-> TRUE, err |-> [nil |-> TRUE, msg |-> <<>>]]
    ELSE IF s \in {<<"0">>, <<"f">>, <<"F">>, <<"FALSE">>, <<"false">>, <<"False">>}
    THEN [v |-> FALSE, err |-> [nil |-> TRUE, msg |-> <<>>]]
    ELSE [v |-> FALSE,
          err |-> [nil |-> FALSE,
                   msg |-> <<"strconv.ParseBool: parsing \"">> \o s
                           \o <<"\": invalid syntax">>]]

\* strconv.ParseFloat(s, 64) on plain decimals: [sign] digits [ "." digit ].
\* Any other text the model hands it holds a character that no float has.
ParseFloat(s) ==
    LET bad == [v |-> 0,
                err |-> [nil |-> FALSE,
                         msg |-> <<"strconv.ParseFloat: parsing \"">> \o s
                                 \o <<"\": invalid syntax">>]]
        signed == s # <<>> /\ (s[1] = "+" \/ s[1] = "-")
        body == IF signed THEN Tail(s) ELSE s
        dot == {i \in 1..Len(body) : body[i] = "."}
        whole == IF dot = {} THEN body
                 ELSE SubSeq(body, 1, (CHOOSE i \in dot : TRUE) - 1)
        frac == IF dot = {} THEN <<>>
                ELSE SubSeq(body, (CHOOSE i \in dot : TRUE) + 1, Len(body))
        w == Atoi(whole)
    IN  IF \/ Cardinality(dot) > 1 \/ Len(frac) > 1 \/ whole = <<>>
           \/ w.err # "nil" \/ \E i \in 1..Len(whole) : ~IsDigit(whole[i])
           \/ \E i \in 1..Len(frac) : ~IsDigit(frac[i])
           \/ w.n.mag[1] > 1000 \/ w.n.mag[2] # 0 \/ w.n.mag[3] # 0 \/ w.n.mag[4] # 0
        THEN bad
        ELSE LET tenths == w.n.mag[1] * 10
                           + (IF frac = <<>> THEN 0 ELSE DigitVal(frac[1]))
             IN  [v |-> IF signed /\ s[1] = "-" THEN -tenths ELSE tenths,
                  err |-> [nil |-> TRUE, msg |-> <<>>]]

Nil == [nil |-> TRUE, msg |-> <<>>]

\* errors.New / fmt.Errorf with the formatted text
Error(msg) == [nil |-> FALSE, msg |-> msg]

\* a Go value with its type: a bool in b, a number in n (float64 in tenths), a
\* text or a list of texts in s; the fields the type does not use are zero
Typed(type, v) ==
    [type |-> type,
     b |-> IF type = "bool" THEN v ELSE FALSE,
     n |-> IF type \in {"int", "int32", "float64"} THEN v ELSE 0,
     s |-> IF type \in {"string", "strings", "uint32s", "description", "devices"}
           THEN v ELSE <<>>]

\* no value: a method without argument or result, a response without Value
None == Typed("none", <<>>)

(***************************************************************************)
(* The world the backends act on: w = [bk, hw, refresh, calls].            *)
(* A backend method returns [val, err, w]: its results and the world it    *)
(* leaves.  bk[b] = [kind, connected, sw], sw the per-switch records.      *)
(***************************************************************************)
World == [bk |-> bk, hw |-> hw, refresh |-> refresh, calls |-> calls]

NoPollers == [query |-> 0, on |-> 0, off |-> 0]

\* mi.Device as loaded from the configuration: switch i of a Mi backend.
\* Even devices are writable on/off plugs, odd ones read-only ranged devices.
MiDevice(i) ==
    [Name |-> <<"plug">> \o Itoa(GoInt(i)),
     Description |-> IF i % 2 = 0 THEN <<>> ELSE <<"dimmer">>,
     Min |-> 0,
     Max |-> IF i % 2 = 0 THEN 1 ELSE 2,
     Step |-> 1,
     Canwrite |-> i % 2 = 0,
     Value |-> 0]

\* hikvision.CameraConfig as loaded from the configuration: camera i
CameraConfig(i) ==
    [Name |-> <<"cam">> \o Itoa(GoInt(i)),
     Description |-> IF i % 2 = 0 THEN <<>> ELSE <<"gate">>,
     Value |-> 0]

\* mi.New(devices, ""): n devices, not connected, no save path
MiNew(n) ==
    [kind |-> "mi", connected |-> FALSE, sw |-> [i \in 1..n |-> MiDevice(i - 1)]]

\* hikvision.New(cfgs): n cameras, not connected
HikNew(n) ==
    [kind |-> "hikvision", connected |-> FALSE,
     sw |-> [i \in 1..n |-> CameraConfig(i - 1)]]

\* the switch record behind a valid local id
Sw(w, b, id) == w.bk[b].sw[id + 1]

\* id < 0 || id >= len(b.devices)   (len(b.cameras))
BadLocalID(w, b, id) == id < 0 \/ id >= Len(w.bk[b].sw)

SetField(w, b, id, f, v) == [w EXCEPT !.bk[b].sw[id + 1][f] = v]

(***************************************************************************)
(* backend/mi: the Xiaomi Mi plug backend.                                 *)
(***************************************************************************)
Mi_NumSwitches(w, b) == Len(w.bk[b].sw)

Mi_GetName(w, b, id) ==
    IF BadLocalID(w, b, id) THEN <<>> ELSE Sw(w, b, id).Name

\* save() returns at once: main builds the backend with an empty savePath
Mi_save(w, b) == w

Mi_SetName(w, b, id, name) ==
    IF BadLocalID(w, b, id)
    THEN [err |-> Error(<<"invalid device id ">> \o Itoa(GoInt(id))), w |-> w]
    ELSE [err |-> Nil, w |-> Mi_save(SetField(w, b, id, "Name", name), b)]

Mi_GetDescription(w, b, id) ==
    IF BadLocalID(w, b, id) THEN <<>>
    ELSE IF Sw(w, b, id).Description # <<>> THEN Sw(w, b, id).Description
    ELSE Sw(w, b, id).Name

Mi_GetCanWrite(w, b, id) ==
    IF BadLocalID(w, b, id) THEN FALSE ELSE Sw(w, b, id).Canwrite

Mi_GetMin(w, b, id) ==
    IF BadLocalID(w, b, id) THEN Float64(0) ELSE Float64(Sw(w, b, id).Min)

Mi_GetMax(w, b, id) ==
    IF BadLocalID(w, b, id) THEN Float64(1) ELSE Float64(Sw(w, b, id).Max)

Mi_GetStep(w, b, id) ==
    IF BadLocalID(w, b, id) THEN Float64(1) ELSE Float64(Sw(w, b, id).Step)

Mi_GetSwitch(w, b, id) ==
    IF BadLocalID(w, b, id)
    THEN [val |-> FALSE, err |-> Error(<<"invalid device id ">> \o Itoa(GoInt(id)))]
    ELSE IF Sw(w, b, id).Max > 1
    THEN [val |-> FALSE, err |-> Error(<<"device is not a simple on/off switch">>)]
    ELSE [val |-> Sw(w, b, id).Value # 0, err |-> Nil]

Mi_GetSwitchValue(w, b, id) ==
    IF BadLocalID(w, b, id)
    THEN [val |-> Float64(0), err |-> Error(<<"invalid device id ">> \o Itoa(GoInt(id)))]
    ELSE [val |-> Float64(Sw(w, b, id).Value), err |-> Nil]

\* miOnOff: the plug takes the state (io = "ok") or cannot be reached
miOnOff(w, b, id, state, io) ==
    IF io = "ok"
    THEN [err |-> Nil, w |-> [w EXCEPT !.hw[b][id + 1] = state]]
    ELSE [err |-> Error(<<"mi: device unreachable">>), w |-> w]

\* mutant: the value is cached before the command is sent
Mi_SetSwitch_optimistic(w, b, id, state, io) ==
    IF BadLocalID(w, b, id)
    THEN [err |-> Error(<<"invalid device id ">> \o Itoa(GoInt(id))), w |-> w]
    ELSE LET sent == miOnOff(SetField(w, b, id, "Value", IF state THEN 1 ELSE 0),
                             b, id, state, io)
         IN  IF ~sent.err.nil THEN [err |-> sent.err, w |-> sent.w]
             ELSE [err |-> Nil, w |-> Mi_save(sent.w, b)]

Mi_SetSwitch(w, b, id, state, io) ==
    IF BadLocalID(w, b, id)
    THEN [err |-> Error(<<"invalid device id ">> \o Itoa(GoInt(id))), w |-> w]
    ELSE LET sent == miOnOff(w, b, id, state, io)
         IN  IF ~sent.err.nil THEN [err |-> sent.err, w |-> sent.w]
             ELSE [err |-> Nil,
                   w |-> Mi_save(SetField(sent.w, b, id, "Value",
                                          IF state THEN 1 ELSE 0), b)]

Mi_SetSwitchValue(w, b, id, value, io) == Mi_SetSwitch(w, b, id, value # 0, io)

\* Connect marks the backend connected and starts the background refresh:
\* queryAllDeviceStates starts one poller goroutine per device
Mi_Connect(w, b) ==
    [err |-> Nil,
     w |-> [w EXCEPT !.bk[b].connected = TRUE,
                     !.refresh[b] = [i \in DOMAIN @ |-> [@[i] EXCEPT !.query = @ + 1]]]]

Mi_Disconnect(w, b) == Mi_save([w EXCEPT !.bk[b].connected = FALSE], b)

Mi_IsConnected(w, b) == w.bk[b].connected

(***************************************************************************)
(* backend/hikvision: the camera IR illuminator backend (live reads).      *)
(***************************************************************************)
Hik_NumSwitches(w, b) == Len(w.bk[b].sw)

Hik_GetName(w, b, id) ==
    IF BadLocalID(w, b, id) THEN <<>> ELSE Sw(w, b, id).Name

Hik_SetName(w, b, id, name) ==
    IF BadLocalID(w, b, id)
    THEN [err |-> Error(<<"invalid camera id ">> \o Itoa(GoInt(id))), w |-> w]
    ELSE [err |-> Nil, w |-> SetField(w, b, id, "Name", name)]

Hik_GetDescription(w, b, id) ==
    IF BadLocalID(w, b, id) THEN <<>>
    ELSE IF Sw(w, b, id).Description # <<>> THEN Sw(w, b, id).Description
    ELSE Sw(w, b, id).Name \o <<" IR illuminator">>

Hik_GetCanWrite(w, b, id) == TRUE

Hik_GetMin(w, b, id) == Float64(0)

Hik_GetMax(w, b, id) == Float64(1)

Hik_GetStep(w, b, id) == Float64(1)

\* camera.getIRLight: the camera answers with its IR mode, or the GET fails
getIRLight(w, b, id, io) ==
    IF io = "ok" THEN [val |-> w.hw[b][id + 1], err |-> Nil]
    ELSE [val |-> FALSE, err |-> Error(<<"GET /ISAPI/System/Hardware failed">>)]

\* camera.setIRLight: the camera takes the mode, or the PUT fails
setIRLight(w, b, id, on, io) ==
    IF io = "ok"
    THEN [err |-> Nil, w |-> [w EXCEPT !.hw[b][id + 1] = on]]
    ELSE [err |-> Error(<<"PUT /ISAPI/System/Hardware failed">>), w |-> w]

Hik_GetSwitch(w, b, id, io) ==
    IF BadLocalID(w, b, id)
    THEN [val |-> FALSE,
          err |-> Error(<<"invalid camera id ">> \o Itoa(GoInt(id))), w |-> w]
    ELSE LET live == getIRLight(w, b, id, io)
         IN  IF ~live.err.nil THEN [val |-> FALSE, err |-> live.err, w |-> w]
             ELSE [val |-> live.val, err |-> Nil,
                   w |-> SetField(w, b, id, "Value", IF live.val THEN 1 ELSE 0)]

Hik_GetSwitchValue(w, b, id) ==
    IF BadLocalID(w, b, id)
    THEN [val |-> Float64(0), err |-> Error(<<"invalid camera id ">> \o Itoa(GoInt(id)))]
    ELSE [val |-> Float64(Sw(w, b, id).Value), err |-> Nil]

Hik_SetSwitch(w, b, id, state, io) ==
    IF BadLocalID(w, b, id)
    THEN [err |-> Error(<<"invalid camera id ">> \o Itoa(GoInt(id))), w |-> w]
    ELSE LET sent == setIRLight(w, b, id, state, io)
         IN  IF ~sent.err.nil THEN [err |-> sent.err, w |-> sent.w]
             ELSE [err |-> Nil,
                   w |-> SetField(sent.w, b, id, "Value", IF state THEN 1 ELSE 0)]

Hik_SetSwitchValue(w, b, id, value, io) == Hik_SetSwitch(w, b, id, value # 0, io)

RECURSIVE Hik_ConnectFrom(_, _, _, _)
\* Connect's loop over the cameras from camera i on: a camera that answers
\* (io[i + 1] = "ok") has its cached value refreshed, one that does not is skipped
Hik_ConnectFrom(w, b, i, io) ==
    IF i >= Len(w.bk[b].sw) THEN w
    ELSE LET live == getIRLight(w, b, i, io[i + 1])
             next == IF ~live.err.nil THEN w
                     ELSE SetField(w, b, i, "Value", IF live.val THEN 1 ELSE 0)
         IN  Hik_ConnectFrom(next, b, i + 1, io)

\* mutant: a camera that does not answer fails the whole Connect
Hik_Connect_allOrNothing(w, b, io) ==
    IF \E i \in 1..Len(w.bk[b].sw) : io[i] # "ok"
    THEN [err |-> Error(<<"camera unreachable">>), w |-> w]
    ELSE [err |-> Nil,
          w |-> Hik_ConnectFrom([w EXCEPT !.bk[b].connected = TRUE], b, 0, io)]

Hik_Connect(w, b, io) ==
    [err |-> Nil,
     w |-> Hik_ConnectFrom([w EXCEPT !.bk[b].connected = TRUE], b, 0, io)]

Hik_Disconnect(w, b) == [w EXCEPT !.bk[b].connected = FALSE]

Hik_IsConnected(w, b) == w.bk[b].connected

(***************************************************************************)
(* backend.SwitchBackend: a method call on backend b goes to the           *)
(* implementation of b's concrete type.  Every call through the interface  *)
(* is recorded in w.calls together with what it returned.                  *)
(***************************************************************************)
IsMi(w, b) == w.bk[b].kind = "mi"

\* the Go value a typed value stands for
Raw(t) ==
    IF t.type = "bool" THEN t.b
    ELSE IF t.type \in {"int", "int32", "float64"} THEN t.n
    ELSE t.s

\* a call through the interface: its results, and the world with the call noted
Logged(w, b, op, id, arg, val, err) ==
    [val |-> Raw(val), err |-> err,
     w |-> [w EXCEPT !.calls = Append(@, [b |-> b, op |-> op, id |-> id,
                                          arg |-> arg, val |-> val, err |-> err])]]

SwitchBackend_NumSwitches(w, b) ==
    IF IsMi(w, b) THEN Mi_NumSwitches(w, b) ELSE Hik_NumSwitches(w, b)

SwitchBackend_GetName(w, b, id) ==
    Logged(w, b, "GetName", id, None,
           Typed("string", IF IsMi(w, b) THEN Mi_GetName(w, b, id)
                           ELSE Hik_GetName(w, b, id)), Nil)

SwitchBackend_SetName(w, b, id, name) ==
    LET r == IF IsMi(w, b) THEN Mi_SetName(w, b, id, name)
             ELSE Hik_SetName(w, b, id, name)
    IN  Logged(r.w, b, "SetName", id, Typed("string", name), None, r.err)

SwitchBackend_GetDescription(w, b, id) ==
    Logged(w, b, "GetDescription", id, None,
           Typed("string", IF IsMi(w, b) THEN Mi_GetDescription(w, b, id)
                           ELSE Hik_GetDescription(w, b, id)), Nil)

SwitchBackend_GetCanWrite(w, b, id) ==
    Logged(w, b, "GetCanWrite", id, None,
           Typed("bool", IF IsMi(w, b) THEN Mi_GetCanWrite(w, b, id)
                         ELSE Hik_GetCanWrite(w, b, id)), Nil)

SwitchBackend_GetMin(w, b, id) ==
    Logged(w, b, "GetMin", id, None,
           Typed("float64", IF IsMi(w, b) THEN Mi_GetMin(w, b, id)
                            ELSE Hik_GetMin(w, b, id)), Nil)

SwitchBackend_GetMax(w, b, id) ==
    Logged(w, b, "GetMax", id, None,
           Typed("float64", IF IsMi(w, b) THEN Mi_GetMax(w, b, id)
                            ELSE Hik_GetMax(w, b, id)), Nil)

SwitchBackend_GetStep(w, b, id) ==
    Logged(w, b, "GetStep", id, None,
           Typed("float64", IF IsMi(w, b) THEN Mi_GetStep(w, b, id)
                            ELSE Hik_GetStep(w, b, id)), Nil)

SwitchBackend_GetSwitch(w, b, id, io) ==
    IF IsMi(w, b)
    THEN LET r == Mi_GetSwitch(w, b, id)
         IN  Logged(w, b, "GetSwitch", id, None, Typed("bool", r.val), r.err)
    ELSE LET r == Hik_GetSwitch(w, b, id, io)
         IN  Logged(r.w, b, "GetSwitch", id, None, Typed("bool", r.val), r.err)

SwitchBackend_GetSwitchValue(w, b, id) ==
    LET r == IF IsMi(w, b) THEN Mi_GetSwitchValue(w, b, id)
             ELSE Hik_GetSwitchValue(w, b, id)
    IN  Logged(w, b, "GetSwitchValue", id, None, Typed("float64", r.val), r.err)

SwitchBackend_SetSwitch(w, b, id, state, io) ==
    LET r == IF IsMi(w, b) THEN Mi_SetSwitch(w, b, id, state, io)
             ELSE Hik_SetSwitch(w, b, id, state, io)
    IN  Logged(r.w, b, "SetSwitch", id, Typed("bool", state), None, r.err)

SwitchBackend_SetSwitchValue(w, b, id, value, io) ==
    LET r == IF IsMi(w, b) THEN Mi_SetSwitchValue(w, b, id, value, io)
             ELSE Hik_SetSwitchValue(w, b, id, value, io)
    IN  Logged(r.w, b, "SetSwitchValue", id, Typed("float64", value), None, r.err)

\* io[b] is what backend b's devices do during the call
SwitchBackend_Connect(w, b, io) ==
    LET r == IF IsMi(w, b) THEN Mi_Connect(w, b) ELSE Hik_Connect(w, b, io[b])
    IN  Logged(r.w, b, "Connect", 0, None, None, r.err)

SwitchBackend_Disconnect(w, b) ==
    Logged(IF IsMi(w, b) THEN Mi_Disconnect(w, b) ELSE Hik_Disconnect(w, b),
           b, "Disconnect", 0, None, None, Nil)

SwitchBackend_IsConnected(w, b) ==
    Logged(w, b, "IsConnected", 0, None,
           Typed("bool", IF IsMi(w, b) THEN Mi_IsConnected(w, b)
                         ELSE Hik_IsConnected(w, b)), Nil)

(***************************************************************************)
(* backend.Router.                                                         *)
(***************************************************************************)
NoRouter == [built |-> FALSE, backends |-> <<>>, index |-> <<>>]

RECURSIVE AppendSwitches_prepend(_, _, _, _)
\* mutant: each switchRef is put in front of the table instead of behind it
AppendSwitches_prepend(w, index, b, localID) ==
    IF localID < SwitchBackend_NumSwitches(w, b)
    THEN AppendSwitches_prepend(w, <<[backend |-> b, localID |-> localID]>> \o index,
                                b, localID + 1)
    ELSE index

RECURSIVE AppendSwitches(_, _, _, _)
\* NewRouter's inner loop: for localID := localID; localID < b.NumSwitches(); localID++
AppendSwitches(w, index, b, localID) ==
    IF localID < SwitchBackend_NumSwitches(w, b)
    THEN AppendSwitches(w, Append(index, [backend |-> b, localID |-> localID]),
                        b, localID + 1)
    ELSE index

RECURSIVE RangeBackends(_, _, _, _)
\* NewRouter's outer loop over backends[k..]
RangeBackends(w, backends, k, index) ==
    IF k > Len(backends) THEN index
    ELSE RangeBackends(w, backends, k + 1, AppendSwitches(w, index, backends[k], 0))

NewRouter(w, backends) ==
    [built |-> TRUE, backends |-> backends,
     index |-> RangeBackends(w, backends, 1, <<>>)]

Router_NumSwitches == Len(router.index)

Router_Backends == router.backends

\* a switchRef is [backend, localID]; the zero switchRef has no backend
ZeroRef == [backend |-> 0, localID |-> 0]

\* mutant: the ID is narrowed to 32 bits before the bounds check
ref_narrowed(globalID) ==
    LET low == [neg |-> globalID.neg,
                mag |-> <<globalID.mag[1], globalID.mag[2], 0, 0>>]
    IN  IF IntNegative(low) \/ IntGeLen(low, Len(router.index))
        THEN [ref |-> ZeroRef, ok |-> FALSE]
        ELSE [ref |-> router.index[Subscript(low) + 1], ok |-> TRUE]

ref(globalID) ==
    IF IntNegative(globalID) \/ IntGeLen(globalID, Len(router.index))
    THEN [ref |-> ZeroRef, ok |-> FALSE]
    ELSE [ref |-> router.index[Subscript(globalID) + 1], ok |-> TRUE]

\* mutant: the message does not say which ID
errInvalidID_anonymous(id) == Error(<<"switch ID is out of range">>)

errInvalidID(id) == Error(<<"switch ID ">> \o Itoa(id) \o <<" is out of range">>)

Router_GetName(w, id) ==
    LET r == ref(id)
    IN  IF r.ok THEN SwitchBackend_GetName(w, r.ref.backend, r.ref.localID)
        ELSE [val |-> <<>>, err |-> Nil, w |-> w]

Router_SetName(w, id, name) ==
    LET r == ref(id)
    IN  IF r.ok THEN SwitchBackend_SetName(w, r.ref.backend, r.ref.localID, name)
        ELSE [val |-> <<>>, err |-> errInvalidID(id), w |-> w]

Router_GetDescription(w, id) ==
    LET r == ref(id)
    IN  IF r.ok THEN SwitchBackend_GetDescription(w, r.ref.backend, r.ref.localID)
        ELSE [val |-> <<>>, err |-> Nil, w |-> w]

Router_GetCanWrite(w, id) ==
    LET r == ref(id)
    IN  IF r.ok THEN SwitchBackend_GetCanWrite(w, r.ref.backend, r.ref.localID)
        ELSE [val |-> FALSE, err |-> Nil, w |-> w]

Router_GetMin(w, id) ==
    LET r == ref(id)
    IN  IF r.ok THEN SwitchBackend_GetMin(w, r.ref.backend, r.ref.localID)
        ELSE [val |-> Float64(0), err |-> Nil, w |-> w]

Router_GetMax(w, id) ==
    LET r == ref(id)
    IN  IF r.ok THEN SwitchBackend_GetMax(w, r.ref.backend, r.ref.localID)
        ELSE [val |-> Float64(1), err |-> Nil, w |-> w]

Router_GetStep(w, id) ==
    LET r == ref(id)
    IN  IF r.ok THEN SwitchBackend_GetStep(w, r.ref.backend, r.ref.localID)
        ELSE [val |-> Float64(1), err |-> Nil, w |-> w]

Router_GetSwitch(w, id, io) ==
    LET r == ref(id)
    IN  IF r.ok THEN SwitchBackend_GetSwitch(w, r.ref.backend, r.ref.localID, io)
        ELSE [val |-> FALSE, err |-> errInvalidID(id), w |-> w]

Router_GetSwitchValue(w, id) ==
    LET r == ref(id)
    IN  IF r.ok THEN SwitchBackend_GetSwitchValue(w, r.ref.backend, r.ref.localID)
        ELSE [val |-> Float64(0), err |-> errInvalidID(id), w |-> w]

\* mutant: the backend is handed the global ID instead of its local ID
Router_SetSwitch_globalID(w, id, state, io) ==
    LET r == ref(id)
    IN  IF r.ok
        THEN SwitchBackend_SetSwitch(w, r.ref.backend, Subscript(id), state, io)
        ELSE [val |-> <<>>, err |-> errInvalidID(id), w |-> w]

Router_SetSwitch(w, id, state, io) ==
    LET r == ref(id)
    IN  IF r.ok
        THEN SwitchBackend_SetSwitch(w, r.ref.backend, r.ref.localID, state, io)
        ELSE [val |-> <<>>, err |-> errInvalidID(id), w |-> w]

Router_SetSwitchValue(w, id, value, io) ==
    LET r == ref(id)
    IN  IF r.ok
        THEN SwitchBackend_SetSwitchValue(w, r.ref.backend, r.ref.localID, value, io)
        ELSE [val |-> <<>>, err |-> errInvalidID(id), w |-> w]

(***************************************************************************)
(* States shared by the specifications.                                    *)
(***************************************************************************)
IOs == {"ok", "fail"}

NoResp == [sent |-> FALSE]

NoRet == [op |-> "none"]

\* every device off, as the configuration's cached values say
HwOff(backendList) ==
    [b \in DOMAIN backendList |-> [i \in DOMAIN backendList[b].sw |-> FALSE]]

NoRefresh(backendList) ==
    [b \in DOMAIN backendList |-> [i \in DOMAIN backendList[b].sw |-> NoPollers]]

\* main has not started the discovery responder
NoDatagram == [read |-> FALSE]

DiscoveryIdle ==
    /\ listening = FALSE
    /\ lanIP = <<>>
    /\ reply = <<>>
    /\ recentReplies = <<>>
    /\ now = 0
    /\ datagram = NoDatagram
    /\ replies = <<>>
    /\ nread = 0

DiscoveryOff == apiPort = DefaultAlpacaPort /\ DiscoveryIdle

\* a server that has answered nothing yet
ServerFresh ==
    /\ serverTransactionID = U32(0)
    /\ inflight = EmptyBag
    /\ resp = NoResp
    /\ issued = <<>>
    /\ nreq = 0
    /\ DiscoveryOff

ServerVars == <<serverTransactionID, inflight, resp, issued, nreq>>

BackendVars == <<bk, hw, refresh>>

\* the backends 1..n in list order
InOrder(n) == [k \in 1..n |-> k]

(***************************************************************************)
(* SpecBuild: NewRouter applied to every list of up to MaxBackends         *)
(* backends with 0..MaxCount switches each.                                *)
(***************************************************************************)
BackendObjects == {MiNew(n) : n \in 0..MaxCount} \cup {HikNew(n) : n \in 0..MaxCount}

BackendLists == UNION {[1..k -> BackendObjects] : k \in 0..MaxBackends}

InitBuild ==
    /\ bk \in BackendLists
    /\ hw = HwOff(bk)
    /\ refresh = NoRefresh(bk)
    /\ router = NoRouter
    /\ calls = <<>>
    /\ ret = NoRet
    /\ ServerFresh

\* main: router := backend.NewRouter([]backend.SwitchBackend{...})
Build ==
    /\ ~router.built
    /\ router' = NewRouter(World, InOrder(Len(bk)))
    /\ UNCHANGED <<BackendVars, calls, ret, ServerVars, DiscoveryVars>>

NextBuild == Build

SpecBuild == InitBuild /\ [][NextBuild]_vars

(***************************************************************************)
(* SpecRouter: the Router's methods called directly, with any global ID,   *)
(* on the router main builds: Mi plugs first, then Hikvision cameras.      *)
(***************************************************************************)
\* main's wiring with two plugs and one camera configured
Deployment == <<MiNew(2), HikNew(1)>>

Deployed ==
    /\ bk = Deployment
    /\ hw = HwOff(bk)
    /\ refresh = NoRefresh(bk)
    /\ router = NewRouter([bk |-> Deployment, hw |-> HwOff(Deployment),
                           refresh |-> NoRefresh(Deployment), calls |-> <<>>],
                          InOrder(Len(Deployment)))
    /\ calls = <<>>
    /\ ret = NoRet

\* 2^32: an ID whose low 32 bits are those of ID 0
TwoTo32 == [neg |-> FALSE, mag |-> <<0, 0, 1, 0>>]

GlobalIDs == {GoInt(k) : k \in -1..(Len(router.index) + 2)} \cup {TwoTo32}

NewNames == {<<"A">>}

Floats == {0, 5, 20}

InitRouter == Deployed /\ ServerFresh

\* the effect of a Router method that returned r for operation op on id
Returned(op, id, arg, type, r) ==
    /\ bk' = r.w.bk
    /\ hw' = r.w.hw
    /\ refresh' = r.w.refresh
    /\ calls' = r.w.calls
    /\ ret' = [op |-> op, id |-> id, arg |-> arg, val |-> Typed(type, r.val),
               err |-> r.err]
    /\ UNCHANGED <<router, ServerVars, DiscoveryVars>>

\* the world at the start of an operation: nothing called yet
Entry == [World EXCEPT !.calls = <<>>]

GetName == \E id \in GlobalIDs :
    Returned("GetName", id, None, "string", Router_GetName(Entry, id))

SetName == \E id \in GlobalIDs, name \in NewNames :
    Returned("SetName", id, Typed("string", name), "none",
             Router_SetName(Entry, id, name))

GetDescription == \E id \in GlobalIDs :
    Returned("GetDescription", id, None, "string", Router_GetDescription(Entry, id))

GetCanWrite == \E id \in GlobalIDs :
    Returned("GetCanWrite", id, None, "bool", Router_GetCanWrite(Entry, id))

GetMin == \E id \in GlobalIDs :
    Returned("GetMin", id, None, "float64", Router_GetMin(Entry, id))

GetMax == \E id \in GlobalIDs :
    Returned("GetMax", id, None, "float64", Router_GetMax(Entry, id))

GetStep == \E id \in GlobalIDs :
    Returned("GetStep", id, None, "float64", Router_GetStep(Entry, id))

GetSwitch == \E id \in GlobalIDs, io \in IOs :
    Returned("GetSwitch", id, None, "bool", Router_GetSwitch(Entry, id, io))

GetSwitchValue == \E id \in GlobalIDs :
    Returned("GetSwitchValue", id, None, "float64", Router_GetSwitchValue(Entry, id))

SetSwitch == \E id \in GlobalIDs, state \in BOOLEAN, io \in IOs :
    Returned("SetSwitch", id, Typed("bool", state), "none",
             Router_SetSwitch(Entry, id, state, io))

SetSwitchValue == \E id \in GlobalIDs, value \in Floats, io \in IOs :
    Returned("SetSwitchValue", id, Typed("float64", value), "none",
             Router_SetSwitchValue(Entry, id, value, io))

NextRouter ==
    \/ GetName \/ SetName \/ GetDescription \/ GetCanWrite
    \/ GetMin \/ GetMax \/ GetStep
    \/ GetSwitch \/ GetSwitchValue \/ SetSwitch \/ SetSwitchValue

SpecRouter == InitRouter /\ [][NextRouter]_vars

(***************************************************************************)
(* server: requests and their parameters.                                  *)
(* A request is [method, path, query, body, malformed]: query and body are *)
(* url.Values (key -> list of values), malformed says that the body does   *)
(* not parse as a form.                                                    *)
(***************************************************************************)
Uppers == <<"A", "C", "D", "E", "I", "L", "M", "N", "O", "R", "S", "T", "U", "V">>

Lowers == <<"a", "c", "d", "e", "i", "l", "m", "n", "o", "r", "s", "t", "u", "v">>

\* unicode.ToLower on the letters that occur in parameter names
ToLower(c) ==
    IF \E i \in DOMAIN Uppers : Uppers[i] = c
    THEN Lowers[CHOOSE i \in DOMAIN Uppers : Uppers[i] = c]
    ELSE c

\* strings.EqualFold
EqualFold(a, b) ==
    /\ Len(a) = Len(b)
    /\ \A i \in 1..Len(a) : ToLower(a[i]) = ToLower(b[i])

\* url.Values.Get: the first value of the key, "" without one
Get(values, name) ==
    IF name \in DOMAIN values /\ values[name] # <<>> THEN values[name][1] ELSE <<>>

\* The first key of the map, in Go's unspecified iteration order, that folds
\* to name and has a value: any such key may come first.
RangeAnyCase(values, name) ==
    LET hits == {k \in DOMAIN values : EqualFold(k, name) /\ Len(values[k]) > 0}
    IN  IF hits = {} THEN {<<>>} ELSE {values[k][1] : k \in hits}

\* mutant: only the key spelled exactly like the name is looked up
getQueryAnyCase_exact(r, name) == {Get(r.query, name)}

\* the set of texts getQueryAnyCase may return
getQueryAnyCase(r, name) ==
    IF Get(r.query, name) # <<>> THEN {Get(r.query, name)}
    ELSE RangeAnyCase(r.query, name)

\* r.Form after r.ParseForm(): body values first, then the query's
Form(r) ==
    [k \in DOMAIN r.body \cup DOMAIN r.query |->
        (IF k \in DOMAIN r.body THEN r.body[k] ELSE <<>>)
        \o (IF k \in DOMAIN r.query THEN r.query[k] ELSE <<>>)]

getFormAnyCase(r, name) ==
    IF r.malformed THEN {<<>>}
    ELSE IF Get(Form(r), name) # <<>> THEN {Get(Form(r), name)}
    ELSE RangeAnyCase(Form(r), name)

getParamAnyCase(r, name) ==
    IF r.method = "GET" THEN getQueryAnyCase(r, name) ELSE getFormAnyCase(r, name)

KeyId == <<"I", "d">>

KeyState == <<"S", "t", "a", "t", "e">>

KeyValue == <<"V", "a", "l", "u", "e">>

KeyName == <<"N", "a", "m", "e">>

KeyConnected == <<"C", "o", "n", "n", "e", "c", "t", "e", "d">>

KeyClientTransactionID ==
    <<"C", "l", "i", "e", "n", "t", "T", "r", "a", "n", "s", "a", "c", "t", "i", "o",
      "n", "I", "D">>

\* the int getClientTransactionID returns for the parameter text v
ClientTransactionIDOf(v) ==
    IF v = <<>> THEN GoInt(0)
    ELSE LET a == Atoi(v)
         IN  IF a.err # "nil" \/ IntNegative(a.n) THEN GoInt(0) ELSE a.n

getClientTransactionID(r) ==
    {ClientTransactionIDOf(v) : v \in getParamAnyCase(r, KeyClientTransactionID)}

\* what getSwitchID returns for the parameter text v: [n, err]
SwitchIDOf(v) ==
    IF v = <<>> THEN [n |-> GoInt(-1), err |-> Error(<<"Id parameter missing">>)]
    ELSE LET a == Atoi(v)
         IN  IF a.err # "nil" \/ IntNegative(a.n)
             THEN [n |-> GoInt(-1), err |-> Error(<<"Id parameter invalid: ">> \o v)]
             ELSE [n |-> a.n, err |-> Nil]

getSwitchID(r) == {SwitchIDOf(v) : v \in getParamAnyCase(r, KeyId)}

\* mutant: a State that is missing or no boolean reads as false
SwitchStateOf_lenient(v) ==
    IF v = <<>> \/ ~ParseBool(v).err.nil THEN [v |-> FALSE, err |-> Nil]
    ELSE ParseBool(v)

SwitchStateOf(v) ==
    IF v = <<>> THEN [v |-> FALSE, err |-> Error(<<"State parameter missing">>)]
    ELSE ParseBool(v)

getSwitchState(r) == {SwitchStateOf(v) : v \in getParamAnyCase(r, KeyState)}

SwitchNameOf(v) ==
    IF v = <<>> THEN [v |-> <<>>, err |-> Error(<<"Name parameter missing">>)]
    ELSE [v |-> v, err |-> Nil]

getSwitchName(r) == {SwitchNameOf(v) : v \in getParamAnyCase(r, KeyName)}

SwitchValueOf(v) ==
    IF v = <<>> THEN [v |-> 0, err |-> Error(<<"Value parameter missing">>)]
    ELSE ParseFloat(v)

getSwitchValue(r) == {SwitchValueOf(v) : v \in getParamAnyCase(r, KeyValue)}

ConnectedOf(v) ==
    IF v = <<>> THEN [v |-> FALSE, err |-> Error(<<"Connected parameter missing">>)]
    ELSE ParseBool(v)

getConnected(r) == {ConnectedOf(v) : v \in getParamAnyCase(r, KeyConnected)}

(***************************************************************************)
(* server: the response envelope and the transaction counter.              *)
(***************************************************************************)
StatusOK == 200

StatusBadRequest == 400

ErrBadRequest == 1024     \* 0x400

\* atomic.AddUint32(&counter, 1): the new value, modulo 2^32
AddUint32(counter) ==
    IF counter[1] + 1 < Base THEN <<counter[1] + 1, counter[2]>>
    ELSE <<0, (counter[2] + 1) % Base>>

\* mutant: the counter is read but not advanced
nextTxnID_stale(counter) == counter

nextTxnID(counter) == AddUint32(counter)

\* prepareResponse for a request whose ClientTransactionID parameter reads ctid
prepareResponse(ctid, counter) ==
    [ClientTransactionID |-> Uint32(ctid), ServerTransactionID |-> nextTxnID(counter)]

\* a handler that is about to call prepareResponse and sendJSON(status, resp);
\* arrival numbers the requests in the order the server took them, log holds the
\* backend calls the handler made
Pending(r, w, status, number, message, value) ==
    [req |-> r, arrival |-> nreq + 1, log |-> w.calls, status |-> status,
     ErrorNumber |-> number, ErrorMessage |-> message, Value |-> value]

\* the success tail of a handler: resp := ...Response{Value: value}
ok(r, w, value) == Pending(r, w, StatusOK, 0, <<>>, value)

\* var resp putResponse
put(r, w) == ok(r, w, None)

badRequest(r, w, err) ==
    Pending(r, w, StatusBadRequest, ErrBadRequest, err.msg, Typed("string", err.msg))

\* net/http starts a goroutine for the next request of the clients c: while
\* requests remain and the clients have fewer than c.limit requests unanswered
CanAccept(c) ==
    /\ nreq < MaxRequests
    /\ BagCardinality(inflight) < c.limit

\* the handler ran up to its prepareResponse call, leaving the world w
Handled(w, pending) ==
    /\ inflight' = inflight (+) SetToBag({pending})
    /\ nreq' = nreq + 1
    /\ bk' = w.bk
    /\ hw' = w.hw
    /\ refresh' = w.refresh
    /\ calls' = w.calls
    /\ resp' = NoResp
    /\ UNCHANGED <<router, ret, serverTransactionID, issued, DiscoveryVars>>

\* prepareResponse and sendJSON: the counter is bumped and the envelope goes out
sendResponse ==
    \E p \in BagToSet(inflight) : \E ctid \in getClientTransactionID(p.req) :
       LET e == prepareResponse(ctid, serverTransactionID)
       IN  /\ serverTransactionID' = e.ServerTransactionID
           /\ issued' = Append(issued, e.ServerTransactionID)
           /\ resp' = [sent |-> TRUE, envelope |-> TRUE, req |-> p.req,
                       arrival |-> p.arrival, log |-> p.log,
                       status |-> p.status,
                       ClientTransactionID |-> e.ClientTransactionID,
                       ServerTransactionID |-> e.ServerTransactionID,
                       ErrorNumber |-> p.ErrorNumber, ErrorMessage |-> p.ErrorMessage,
                       Value |-> p.Value]
           /\ inflight' = inflight (-) SetToBag({p})
           /\ UNCHANGED <<BackendVars, router, calls, ret, nreq, DiscoveryVars>>

(***************************************************************************)
(* server: routes and the requests clients send.                           *)
(***************************************************************************)
\* configureManagementAPI, configureCommonAPI, configureSwitchAPI
Routes ==
    {<<"GET", "/", "handleRoot">>,
     <<"GET", "/management/apiversions", "handleAPIVersions">>,
     <<"GET", "/management/v1/description", "handleDescription">>,
     <<"GET", "/management/v1/configureddevices", "handleConfiguredDevices">>,
     <<"PUT", "/api/v1/switch/0/action", "handleNotSupported">>,
     <<"PUT", "/api/v1/switch/0/commandblind", "handleNotSupported">>,
     <<"PUT", "/api/v1/switch/0/commandbool", "handleNotSupported">>,
     <<"PUT", "/api/v1/switch/0/commandstring", "handleNotSupported">>,
     <<"GET", "/api/v1/switch/0/connected", "handleGetConnected">>,
     <<"PUT", "/api/v1/switch/0/connected", "handleSetConnected">>,
     <<"GET", "/api/v1/switch/0/description", "handleDeviceDescription">>,
     <<"GET", "/api/v1/switch/0/driverinfo", "handleDriverInfo">>,
     <<"GET", "/api/v1/switch/0/driverversion", "handleDriverVersion">>,
     <<"GET", "/api/v1/switch/0/interfaceversion", "handleInterfaceVersion">>,
     <<"GET", "/api/v1/switch/0/name", "handleName">>,
     <<"GET", "/api/v1/switch/0/supportedactions", "handleSupportedActions">>,
     <<"GET", "/setup/v1/switch/0/setup", "handleSetup">>,
     <<"GET", "/api/v1/switch/0/maxswitch", "handleMaxSwitch">>,
     <<"GET", "/api/v1/switch/0/canwrite", "handleCanWrite">>,
     <<"GET", "/api/v1/switch/0/getswitch", "handleGetSwitch">>,
     <<"GET", "/api/v1/switch/0/getswitchdescription", "handleGetSwitchDescription">>,
     <<"GET", "/api/v1/switch/0/getswitchname", "handleGetSwitchName">>,
     <<"GET", "/api/v1/switch/0/getswitchvalue", "handleGetSwitchValue">>,
     <<"GET", "/api/v1/switch/0/minswitchvalue", "handleMinSwitchValue">>,
     <<"GET", "/api/v1/switch/0/maxswitchvalue", "handleMaxSwitchValue">>,
     <<"GET", "/api/v1/switch/0/switchstep", "handleSwitchStep">>,
     <<"PUT", "/api/v1/switch/0/setswitch", "handleSetSwitch">>,
     <<"PUT", "/api/v1/switch/0/setswitchname", "handleSetSwitchName">>,
     <<"PUT", "/api/v1/switch/0/setswitchvalue", "handleSetSwitchValue">>}

NoParams == <<>>

HttpGet(path, query) ==
    [method |-> "GET", path |-> path, query |-> query, body |-> NoParams,
     malformed |-> FALSE]

HttpPut(path, query, body) ==
    [method |-> "PUT", path |-> path, query |-> query, body |-> body,
     malformed |-> FALSE]

Param(key, text) == key :> <<text>>

\* "4294967296" and "4294967297": 2^32 and 2^32 + 1 in decimal
Text2To32 == <<"4", "2", "9", "4", "9", "6", "7", "2", "9", "6">>

Text2To32Plus1 == <<"4", "2", "9", "4", "9", "6", "7", "2", "9", "7">>

\* the reads that take a switch Id
SwitchReads ==
    {"/api/v1/switch/0/canwrite", "/api/v1/switch/0/getswitch",
     "/api/v1/switch/0/getswitchdescription", "/api/v1/switch/0/getswitchname",
     "/api/v1/switch/0/getswitchvalue", "/api/v1/switch/0/minswitchvalue",
     "/api/v1/switch/0/maxswitchvalue", "/api/v1/switch/0/switchstep"}

ReadRequests ==
    {HttpGet(p, Param(KeyId, t)) : p \in SwitchReads, t \in {<<"1">>, <<"5">>}}
    \cup {HttpGet("/api/v1/switch/0/getswitch", q) :
            q \in {NoParams, Param(KeyId, <<"-", "1">>), Param(KeyId, <<"x">>),
                   Param(KeyId, <<"0">>), Param(KeyId, <<"2">>),
                   Param(<<"i", "d">>, <<"0">>), Param(KeyId, Text2To32)}}
    \cup {HttpGet("/api/v1/switch/0/getswitchname", Param(KeyId, <<"3">>))}

WriteRequests ==
    {HttpPut("/api/v1/switch/0/setswitch", NoParams, b) :
        b \in {Param(KeyId, <<"0">>) @@ Param(KeyState, <<"true">>),
               Param(KeyId, <<"0">>) @@ Param(KeyState, <<"false">>),
               Param(KeyId, <<"2">>) @@ Param(KeyState, <<"true">>),
               Param(KeyId, <<"5">>) @@ Param(KeyState, <<"true">>),
               Param(KeyState, <<"true">>),
               Param(KeyId, <<"0">>),
               Param(KeyId, <<"0">>) @@ Param(KeyState, <<"yes">>)}}
    \cup {HttpPut("/api/v1/switch/0/setswitch", Param(KeyId, <<"1">>),
                  Param(KeyState, <<"true">>))}
    \cup {HttpPut("/api/v1/switch/0/setswitchvalue", NoParams, b) :
        b \in {Param(KeyId, <<"0">>) @@ Param(KeyValue, <<"1">>),
               Param(KeyId, <<"1">>) @@ Param(KeyValue, <<"0", ".", "5">>),
               Param(KeyId, <<"5">>) @@ Param(KeyValue, <<"1">>),
               Param(KeyValue, <<"1">>),
               Param(KeyId, <<"0">>),
               Param(KeyId, <<"0">>) @@ Param(KeyValue, <<"o", "n">>)}}
    \cup {HttpPut("/api/v1/switch/0/setswitchname", NoParams, b) :
        b \in {Param(KeyId, <<"0">>) @@ Param(KeyName, <<"A">>),
               Param(KeyId, <<"2">>) @@ Param(KeyName, <<"A">>),
               Param(KeyId, <<"5">>) @@ Param(KeyName, <<"A">>),
               Param(KeyName, <<"A">>),
               Param(KeyId, <<"0">>)}}

ConnectionRequests ==
    {HttpGet("/api/v1/switch/0/connected", NoParams)}
    \cup {HttpPut("/api/v1/switch/0/connected", NoParams, b) :
            b \in {Param(KeyConnected, <<"true">>), Param(KeyConnected, <<"false">>),
                   Param(KeyConnected, <<"yes">>), NoParams}}
    \cup {[HttpPut("/api/v1/switch/0/connected", NoParams, NoParams)
             EXCEPT !.malformed = TRUE]}

\* one plain request for every route without parameters
PlainRequests ==
    {HttpGet(rt[2], NoParams) :
        rt \in {x \in Routes : x[1] = "GET" /\ x[2] \notin SwitchReads
                                /\ x[2] # "/api/v1/switch/0/connected"}}
    \cup {HttpPut(rt[2], NoParams, NoParams) :
            rt \in {x \in Routes : x[3] = "handleNotSupported"}}

\* requests that carry a ClientTransactionID
TransactionRequests ==
    {HttpGet("/api/v1/switch/0/maxswitch", Param(KeyClientTransactionID, t)) :
        t \in {<<"7">>, <<"-", "1">>, <<"x">>, Text2To32Plus1}}
    \cup {HttpGet("/api/v1/switch/0/maxswitch",
                  Param(<<"c", "l", "i", "e", "n", "t", "t", "r", "a", "n", "s", "a", "c",
                          "t", "i", "o", "n", "i", "d">>, <<"7">>)),
          HttpPut("/api/v1/switch/0/action", NoParams,
                  Param(KeyClientTransactionID, <<"7">>)),
          HttpPut("/api/v1/switch/0/setswitch", NoParams,
                  Param(KeyState, <<"true">>) @@ Param(KeyClientTransactionID, <<"7">>)),
          HttpPut("/api/v1/switch/0/connected", NoParams,
                  Param(KeyClientTransactionID, <<"7">>))}

Requests ==
    ReadRequests \cup WriteRequests \cup ConnectionRequests \cup PlainRequests
    \cup TransactionRequests

\* the requests httprouter hands to the named handler
\* one request for every handler, each well-formed and in range
CoreRequests ==
    {HttpGet(p, Param(KeyId, <<"0">>)) : p \in SwitchReads}
    \cup {HttpGet(rt[2], NoParams) :
            rt \in {x \in Routes : x[1] = "GET" /\ x[2] \notin SwitchReads}}
    \cup {HttpPut("/api/v1/switch/0/action", NoParams, NoParams),
          HttpPut("/api/v1/switch/0/connected", NoParams,
                  Param(KeyConnected, <<"true">>)),
          HttpPut("/api/v1/switch/0/setswitch", NoParams,
                  Param(KeyId, <<"0">>) @@ Param(KeyState, <<"true">>)),
          HttpPut("/api/v1/switch/0/setswitchvalue", NoParams,
                  Param(KeyId, <<"0">>) @@ Param(KeyValue, <<"1">>)),
          HttpPut("/api/v1/switch/0/setswitchname", NoParams,
                  Param(KeyId, <<"0">>) @@ Param(KeyName, <<"A">>))}

\* clients that wait for each response before they send the next request
Serial == [requests |-> Requests, limit |-> 1]

\* clients that send the core requests with up to MaxInFlight unanswered
Concurrent == [requests |-> CoreRequests, limit |-> MaxInFlight]

\* the requests of the clients c that httprouter hands to the named handler
Routed(c, handler) == {r \in c.requests : <<r.method, r.path, handler>> \in Routes}

(***************************************************************************)
(* server: the handlers.  Each runs up to its prepareResponse call in one  *)
(* step; sendResponse is its second step.                                  *)
(***************************************************************************)
serverName == <<"Alpaca Switch Controller">>

manufacturer == <<"https://github.com/exploded/">>

driverVersion == <<"1.0.0">>

location == <<"Earth">>

deviceUniqueID == <<"a1b2c3d4-e5f6-7890-abcd-ef1234567890">>

\* the character U+2014 of the description texts
EmDash == <<"U+2014">>

\* fmt.Fprintln(w, serverName): no envelope, no transaction ID
handleRoot(cl) ==
    /\ CanAccept(cl)
    /\ \E r \in Routed(cl, "handleRoot") :
          /\ resp' = [sent |-> TRUE, envelope |-> FALSE, req |-> r, status |-> StatusOK,
                      body |-> serverName]
          /\ nreq' = nreq + 1
          /\ calls' = <<>>
          /\ UNCHANGED <<BackendVars, router, ret, serverTransactionID, inflight, issued, DiscoveryVars>>

handleAPIVersions(cl) ==
    /\ CanAccept(cl)
    /\ \E r \in Routed(cl, "handleAPIVersions") :
          Handled(Entry, ok(r, Entry,
                            Typed("uint32s", <<"1">>)))

handleDescription(cl) ==
    /\ CanAccept(cl)
    /\ \E r \in Routed(cl, "handleDescription") :
          Handled(Entry, ok(r, Entry,
                            Typed("description",
                                  serverName \o manufacturer \o driverVersion \o location)))

handleConfiguredDevices(cl) ==
    /\ CanAccept(cl)
    /\ \E r \in Routed(cl, "handleConfiguredDevices") :
          Handled(Entry, ok(r, Entry,
                            Typed("devices",
                                  serverName \o <<"Switch">> \o Itoa(GoInt(0))
                                  \o deviceUniqueID)))

\* mutant: the unsupported actions are acknowledged like a write that worked
handleNotSupported_acknowledged(cl) ==
    /\ CanAccept(cl)
    /\ \E r \in Routed(cl, "handleNotSupported") : Handled(Entry, put(r, Entry))

\* var resp stringResponse; "not supported", 0x400, "action not supported"
handleNotSupported(cl) ==
    /\ CanAccept(cl)
    /\ \E r \in Routed(cl, "handleNotSupported") :
          Handled(Entry, Pending(r, Entry, StatusBadRequest, ErrBadRequest,
                                    <<"action not supported">>,
                                    Typed("string", <<"not supported">>)))

\* mutant: connected as soon as one backend is
AllConnected_any(w, backends, k) ==
    [val |-> \E j \in k..Len(backends) : SwitchBackend_IsConnected(w, backends[j]).val,
     w |-> w]

RECURSIVE AllConnected(_, _, _)
\* handleGetConnected's loop over backends[k..]: stop at the first one not connected
AllConnected(w, backends, k) ==
    IF k > Len(backends) THEN [val |-> TRUE, w |-> w]
    ELSE LET c == SwitchBackend_IsConnected(w, backends[k])
         IN  IF ~c.val THEN [val |-> FALSE, w |-> c.w]
             ELSE AllConnected(c.w, backends, k + 1)

handleGetConnected(cl) ==
    /\ CanAccept(cl)
    /\ \E r \in Routed(cl, "handleGetConnected") :
          LET v == AllConnected(Entry, Router_Backends, 1)
          IN  Handled(v.w, ok(r, v.w, Typed("bool", v.val)))

\* mutant: the loop ends after the first backend
SetConnected_firstOnly(w, backends, k, connect, io) ==
    IF k > Len(backends) THEN w
    ELSE (IF connect THEN SwitchBackend_Connect(w, backends[k], io)
          ELSE SwitchBackend_Disconnect(w, backends[k])).w

RECURSIVE SetConnected(_, _, _, _, _)
\* handleSetConnected's loop over backends[k..]: Connect errors are dropped
SetConnected(w, backends, k, connect, io) ==
    IF k > Len(backends) THEN w
    ELSE SetConnected((IF connect THEN SwitchBackend_Connect(w, backends[k], io)
                       ELSE SwitchBackend_Disconnect(w, backends[k])).w,
                      backends, k + 1, connect, io)

\* what the devices of backend b may do during a Connect: one outcome a camera
DeviceIOs(b) == IF bk[b].kind = "mi" THEN {<<>>} ELSE [1..Len(bk[b].sw) -> IOs]

ConnectIOs ==
    {io \in [DOMAIN bk -> UNION {DeviceIOs(b) : b \in DOMAIN bk}] :
        \A b \in DOMAIN bk : io[b] \in DeviceIOs(b)}

handleSetConnected(cl) ==
    /\ CanAccept(cl)
    /\ \E r \in Routed(cl, "handleSetConnected") : \E c \in getConnected(r) :
          IF ~c.err.nil
          THEN Handled(Entry, Pending(r, Entry, StatusBadRequest, ErrBadRequest,
                                         c.err.msg, Typed("string", c.err.msg)))
          ELSE \E io \in (IF c.v THEN ConnectIOs ELSE {<<>>}) :
                 LET w == SetConnected(Entry, Router_Backends, 1, c.v, io)
                 IN  Handled(w, put(r, w))

handleDeviceDescription(cl) ==
    /\ CanAccept(cl)
    /\ \E r \in Routed(cl, "handleDeviceDescription") :
          Handled(Entry, ok(r, Entry,
                            Typed("string",
                                  serverName \o <<" ">> \o EmDash
                                  \o <<" controls Xiaomi Mi smart plugs and ">>
                                  \o <<"Hikvision IR cameras via ASCOM Alpaca">>)))

handleDriverInfo(cl) ==
    /\ CanAccept(cl)
    /\ \E r \in Routed(cl, "handleDriverInfo") :
          Handled(Entry, ok(r, Entry,
                            Typed("string",
                                  serverName \o <<" v">> \o driverVersion \o <<" ">>
                                  \o EmDash \o <<" ">> \o manufacturer)))

handleDriverVersion(cl) ==
    /\ CanAccept(cl)
    /\ \E r \in Routed(cl, "handleDriverVersion") :
          Handled(Entry, ok(r, Entry,
                            Typed("string", driverVersion)))

handleInterfaceVersion(cl) ==
    /\ CanAccept(cl)
    /\ \E r \in Routed(cl, "handleInterfaceVersion") :
          Handled(Entry, ok(r, Entry,
                            Typed("int32", 2)))

handleName(cl) ==
    /\ CanAccept(cl)
    /\ \E r \in Routed(cl, "handleName") :
          Handled(Entry, ok(r, Entry,
                            Typed("string", serverName)))

handleSupportedActions(cl) ==
    /\ CanAccept(cl)
    /\ \E r \in Routed(cl, "handleSupportedActions") :
          Handled(Entry, ok(r, Entry,
                            Typed("strings", <<>>)))

\* fmt.Fprintln(w, serverName): no envelope, no transaction ID
handleSetup(cl) ==
    /\ CanAccept(cl)
    /\ \E r \in Routed(cl, "handleSetup") :
          /\ resp' = [sent |-> TRUE, envelope |-> FALSE, req |-> r, status |-> StatusOK,
                      body |-> serverName]
          /\ nreq' = nreq + 1
          /\ calls' = <<>>
          /\ UNCHANGED <<BackendVars, router, ret, serverTransactionID, inflight, issued, DiscoveryVars>>

\* mutant: only the switches of connected backends are counted
handleMaxSwitch_connected(cl) ==
    /\ CanAccept(cl)
    /\ \E r \in Routed(cl, "handleMaxSwitch") :
          Handled(Entry, ok(r, Entry,
                            Typed("int32", Len(SelectSeq(router.index,
                                LAMBDA e : bk[e.backend].connected)))))

handleMaxSwitch(cl) ==
    /\ CanAccept(cl)
    /\ \E r \in Routed(cl, "handleMaxSwitch") :
          Handled(Entry, ok(r, Entry, Typed("int32", Router_NumSwitches)))

handleCanWrite(cl) ==
    /\ CanAccept(cl)
    /\ \E r \in Routed(cl, "handleCanWrite") : \E id \in getSwitchID(r) :
          IF ~id.err.nil THEN Handled(Entry, badRequest(r, Entry, id.err))
          ELSE LET v == Router_GetCanWrite(Entry, id.n)
               IN  Handled(v.w, ok(r, v.w, Typed("bool", v.val)))

handleGetSwitch(cl) ==
    /\ CanAccept(cl)
    /\ \E r \in Routed(cl, "handleGetSwitch") : \E id \in getSwitchID(r), io \in IOs :
          IF ~id.err.nil THEN Handled(Entry, badRequest(r, Entry, id.err))
          ELSE LET v == Router_GetSwitch(Entry, id.n, io)
               IN  IF ~v.err.nil THEN Handled(v.w, badRequest(r, v.w, v.err))
                   ELSE Handled(v.w, ok(r, v.w, Typed("bool", v.val)))

handleGetSwitchDescription(cl) ==
    /\ CanAccept(cl)
    /\ \E r \in Routed(cl, "handleGetSwitchDescription") : \E id \in getSwitchID(r) :
          IF ~id.err.nil THEN Handled(Entry, badRequest(r, Entry, id.err))
          ELSE LET v == Router_GetDescription(Entry, id.n)
               IN  Handled(v.w, ok(r, v.w, Typed("string", v.val)))

handleGetSwitchName(cl) ==
    /\ CanAccept(cl)
    /\ \E r \in Routed(cl, "handleGetSwitchName") : \E id \in getSwitchID(r) :
          IF ~id.err.nil THEN Handled(Entry, badRequest(r, Entry, id.err))
          ELSE LET v == Router_GetName(Entry, id.n)
               IN  Handled(v.w, ok(r, v.w, Typed("string", v.val)))

handleGetSwitchValue(cl) ==
    /\ CanAccept(cl)
    /\ \E r \in Routed(cl, "handleGetSwitchValue") : \E id \in getSwitchID(r) :
          IF ~id.err.nil THEN Handled(Entry, badRequest(r, Entry, id.err))
          ELSE LET v == Router_GetSwitchValue(Entry, id.n)
               IN  IF ~v.err.nil THEN Handled(v.w, badRequest(r, v.w, v.err))
                   ELSE Handled(v.w, ok(r, v.w, Typed("float64", v.val)))

handleMinSwitchValue(cl) ==
    /\ CanAccept(cl)
    /\ \E r \in Routed(cl, "handleMinSwitchValue") : \E id \in getSwitchID(r) :
          IF ~id.err.nil THEN Handled(Entry, badRequest(r, Entry, id.err))
          ELSE LET v == Router_GetMin(Entry, id.n)
               IN  Handled(v.w, ok(r, v.w, Typed("float64", v.val)))

handleMaxSwitchValue(cl) ==
    /\ CanAccept(cl)
    /\ \E r \in Routed(cl, "handleMaxSwitchValue") : \E id \in getSwitchID(r) :
          IF ~id.err.nil THEN Handled(Entry, badRequest(r, Entry, id.err))
          ELSE LET v == Router_GetMax(Entry, id.n)
               IN  Handled(v.w, ok(r, v.w, Typed("float64", v.val)))

handleSwitchStep(cl) ==
    /\ CanAccept(cl)
    /\ \E r \in Routed(cl, "handleSwitchStep") : \E id \in getSwitchID(r) :
          IF ~id.err.nil THEN Handled(Entry, badRequest(r, Entry, id.err))
          ELSE LET v == Router_GetStep(Entry, id.n)
               IN  Handled(v.w, ok(r, v.w, Typed("float64", v.val)))

handleSetSwitch(cl) ==
    /\ CanAccept(cl)
    /\ \E r \in Routed(cl, "handleSetSwitch") : \E id \in getSwitchID(r), io \in IOs :
          IF ~id.err.nil THEN Handled(Entry, badRequest(r, Entry, id.err))
          ELSE \E a \in getSwitchState(r) :
                 IF ~a.err.nil THEN Handled(Entry, badRequest(r, Entry, a.err))
                 ELSE LET v == Router_SetSwitch(Entry, id.n, a.v, io)
                      IN  IF ~v.err.nil THEN Handled(v.w, badRequest(r, v.w, v.err))
                          ELSE Handled(v.w, put(r, v.w))

handleSetSwitchName(cl) ==
    /\ CanAccept(cl)
    /\ \E r \in Routed(cl, "handleSetSwitchName") : \E id \in getSwitchID(r) :
          IF ~id.err.nil THEN Handled(Entry, badRequest(r, Entry, id.err))
          ELSE \E a \in getSwitchName(r) :
                 IF ~a.err.nil THEN Handled(Entry, badRequest(r, Entry, a.err))
                 ELSE LET v == Router_SetName(Entry, id.n, a.v)
                      IN  IF ~v.err.nil THEN Handled(v.w, badRequest(r, v.w, v.err))
                          ELSE Handled(v.w, put(r, v.w))

handleSetSwitchValue(cl) ==
    /\ CanAccept(cl)
    /\ \E r \in Routed(cl, "handleSetSwitchValue") : \E id \in getSwitchID(r), io \in IOs :
          IF ~id.err.nil THEN Handled(Entry, badRequest(r, Entry, id.err))
          ELSE \E a \in getSwitchValue(r) :
                 IF ~a.err.nil THEN Handled(Entry, badRequest(r, Entry, a.err))
                 ELSE LET v == Router_SetSwitchValue(Entry, id.n, a.v, io)
                      IN  IF ~v.err.nil THEN Handled(v.w, badRequest(r, v.w, v.err))
                          ELSE Handled(v.w, put(r, v.w))

(***************************************************************************)
(* backend/mi: the background refresh Connect starts.  refresh[b][i] counts *)
(* the goroutines of device i that have yet to query the plug (query) and  *)
(* those that hold an answer they have yet to store (on, off).             *)
(***************************************************************************)
\* state, err := miQueryPower(int32(i), devices); on an error the goroutine ends
miQueryPower(b, i) ==
    /\ refresh[b][i].query > 0
    /\ \E io \in IOs :
          refresh' = [refresh EXCEPT ![b][i] =
                        IF io = "fail" THEN [@ EXCEPT !.query = @ - 1]
                        ELSE IF hw[b][i] THEN [@ EXCEPT !.query = @ - 1, !.on = @ + 1]
                        ELSE [@ EXCEPT !.query = @ - 1, !.off = @ + 1]]
    /\ resp' = NoResp
    /\ UNCHANGED <<bk, hw, router, calls, ret, serverTransactionID, inflight, issued, nreq, DiscoveryVars>>

\* b.mu.Lock(); b.devices[i].Value = 1 or 0; b.mu.Unlock()
StoreDeviceState(b, i) ==
    /\ refresh[b][i].on + refresh[b][i].off > 0
    /\ \E state \in {st \in BOOLEAN : IF st THEN refresh[b][i].on > 0
                                       ELSE refresh[b][i].off > 0} :
          /\ bk' = [bk EXCEPT ![b].sw[i].Value = IF state THEN 1 ELSE 0]
          /\ refresh' = [refresh EXCEPT ![b][i] =
                           IF state THEN [@ EXCEPT !.on = @ - 1]
                           ELSE [@ EXCEPT !.off = @ - 1]]
    /\ resp' = NoResp
    /\ UNCHANGED <<hw, router, calls, ret, serverTransactionID, inflight, issued, nreq, DiscoveryVars>>

(***************************************************************************)
(* Spec: the server main starts, answering up to MaxRequests requests of   *)
(* serial clients.  SpecConcurrent: the same with concurrent clients.      *)
(* SpecWrap: the server two responses short of 2^32 responses.             *)
(***************************************************************************)
Init == Deployed /\ ServerFresh

\* 2^32 - 2
NearWrap == <<Base - 2, Base - 1>>

InitWrap ==
    /\ Deployed
    /\ serverTransactionID = NearWrap
    /\ inflight = EmptyBag
    /\ resp = NoResp
    /\ issued = <<>>
    /\ nreq = 0
    /\ DiscoveryOff

Next(cl) ==
    \/ handleRoot(cl)
    \/ handleAPIVersions(cl)
    \/ handleDescription(cl)
    \/ handleConfiguredDevices(cl)
    \/ handleNotSupported(cl)
    \/ handleGetConnected(cl)
    \/ handleSetConnected(cl)
    \/ handleDeviceDescription(cl)
    \/ handleDriverInfo(cl)
    \/ handleDriverVersion(cl)
    \/ handleInterfaceVersion(cl)
    \/ handleName(cl)
    \/ handleSupportedActions(cl)
    \/ handleSetup(cl)
    \/ handleMaxSwitch(cl)
    \/ handleCanWrite(cl)
    \/ handleGetSwitch(cl)
    \/ handleGetSwitchDescription(cl)
    \/ handleGetSwitchName(cl)
    \/ handleGetSwitchValue(cl)
    \/ handleMinSwitchValue(cl)
    \/ handleMaxSwitchValue(cl)
    \/ handleSwitchStep(cl)
    \/ handleSetSwitch(cl)
    \/ handleSetSwitchName(cl)
    \/ handleSetSwitchValue(cl)
    \/ sendResponse
    \/ \E b \in DOMAIN bk : \E i \in DOMAIN bk[b].sw : miQueryPower(b, i)
    \/ \E b \in DOMAIN bk : \E i \in DOMAIN bk[b].sw : StoreDeviceState(b, i)

Spec == Init /\ [][Next(Serial)]_vars

SpecConcurrent == Init /\ [][Next(Concurrent)]_vars

SpecWrap == InitWrap /\ [][Next(Concurrent)]_vars

(***************************************************************************)
(* SpecConnection: the connected endpoints in front of any list of up to   *)
(* MaxBackends backends, each connected or not (as a fan-out that has      *)
(* reached only some of them leaves them), each camera light on or off.    *)
(***************************************************************************)
ConnectionBackends ==
    {[b EXCEPT !.connected = c] : b \in {MiNew(1), HikNew(1)}, c \in BOOLEAN}

ConnectionLists == UNION {[1..k -> ConnectionBackends] : k \in 0..MaxBackends}

InitConnection ==
    /\ bk \in ConnectionLists
    /\ hw \in {h \in [DOMAIN bk -> [{1} -> BOOLEAN]] :
                   \A b \in DOMAIN bk : bk[b].kind = "mi" => ~h[b][1]}
    /\ refresh = NoRefresh(bk)
    /\ router = NewRouter([bk |-> bk, hw |-> hw, refresh |-> refresh, calls |-> <<>>],
                          InOrder(Len(bk)))
    /\ calls = <<>>
    /\ ret = NoRet
    /\ ServerFresh

\* clients that only ask for and set the connected state, one request at a time
ConnectionClients == [requests |-> ConnectionRequests, limit |-> 1]

NextConnection ==
    \/ handleGetConnected(ConnectionClients)
    \/ handleSetConnected(ConnectionClients)
    \/ sendResponse
    \/ \E b \in DOMAIN bk : \E i \in DOMAIN bk[b].sw : miQueryPower(b, i)
    \/ \E b \in DOMAIN bk : \E i \in DOMAIN bk[b].sw : StoreDeviceState(b, i)

SpecConnection == InitConnection /\ [][NextConnection]_vars

(***************************************************************************)
(* The discovery responder (StartDiscovery).  Texts are sequences of       *)
(* characters, a net.IP is its four octets, the clock counts seconds.      *)
(***************************************************************************)
MaxProbes == 2       \* datagrams read in one run
MaxTime == 2         \* seconds the clock runs for

\* 2*time.Second
Window == 2

Magic == <<"a", "l", "p", "a", "c", "a", "d", "i", "s", "c", "o", "v", "e", "r", "y", "1">>

\* unicode.IsSpace on the characters the payloads hold
IsSpace(c) == c \in {" ", "\t", "\n", "\r"}

RECURSIVE TrimLeft(_)
TrimLeft(s) == IF s # <<>> /\ IsSpace(s[1]) THEN TrimLeft(Tail(s)) ELSE s

RECURSIVE TrimRight(_)
TrimRight(s) ==
    IF s # <<>> /\ IsSpace(s[Len(s)]) THEN TrimRight(SubSeq(s, 1, Len(s) - 1)) ELSE s

\* strings.TrimSpace
TrimSpace(s) == TrimRight(TrimLeft(s))

\* strings.HasPrefix
HasPrefix(s, prefix) ==
    Len(s) >= Len(prefix) /\ SubSeq(s, 1, Len(prefix)) = prefix

\* net.IP.String of an IPv4 address: the octets in decimal between dots
IP_String(ip) ==
    Itoa(GoInt(ip[1])) \o <<".">> \o Itoa(GoInt(ip[2])) \o <<".">>
    \o Itoa(GoInt(ip[3])) \o <<".">> \o Itoa(GoInt(ip[4]))

RECURSIVE Fields(_, _)
\* the pieces of s between the separators
Fields(s, sep) ==
    IF s = <<>> THEN << <<>> >>
    ELSE LET rest == Fields(Tail(s), sep)
         IN  IF s[1] = sep THEN << <<>> >> \o rest
             ELSE << <<s[1]>> \o rest[1] >> \o Tail(rest)

RECURSIVE Decimal(_)
\* the number a short run of digits spells
Decimal(f) ==
    IF f = <<>> THEN 0
    ELSE 10 * Decimal(SubSeq(f, 1, Len(f) - 1)) + DigitVal(f[Len(f)])

\* one decimal field of an IPv4 address: 1 to 3 digits, no leading zero,
\* at most 255; -1 for anything else
Octet(f) ==
    IF \/ f = <<>> \/ Len(f) > 3
       \/ \E i \in 1..Len(f) : ~IsDigit(f[i])
       \/ (Len(f) > 1 /\ f[1] = "0")
    THEN -1
    ELSE IF Decimal(f) > 255 THEN -1 ELSE Decimal(f)

\* net.ParseIP(s).To4() on the dotted-decimal texts: the octets, <<>> for nil
ParseIPTo4(s) ==
    LET f == Fields(s, ".")
        octets == [i \in 1..Len(f) |-> Octet(f[i])]
    IN  IF Len(f) # 4 \/ \E i \in 1..Len(f) : octets[i] < 0 THEN <<>>
        ELSE octets

\* mutant: only the first two octets are compared
sameSubnet24_twoOctets(ip, refIP) ==
    LET a == ParseIPTo4(ip)
        b == ParseIPTo4(refIP)
    IN  IF a = <<>> \/ b = <<>> THEN FALSE
        ELSE a[1] = b[1] /\ a[2] = b[2]

sameSubnet24(ip, refIP) ==
    LET a == ParseIPTo4(ip)
        b == ParseIPTo4(refIP)
    IN  IF a = <<>> \/ b = <<>> THEN FALSE
        ELSE a[1] = b[1] /\ a[2] = b[2] /\ a[3] = b[3]

\* What outboundIP may return: the address of the interface that routes to
\* the internet, or "0.0.0.0" when there is none.
outboundIP ==
    {IP_String(<<192, 168, 1, 5>>), <<"0", ".", "0", ".", "0", ".", "0">>}

\* fmt.Sprintf("{\n\"AlpacaPort\":%d\n}", apiPort)
ReplyText(port) ==
    <<"{", "\n", "\"AlpacaPort\":">> \o Itoa(port) \o <<"\n", "}">>

\* mutant: two replies one second apart are let through
tooSoon_oneSecond(seen, last, t) == seen /\ t - last < 1

\* seen && time.Since(last) < 2*time.Second
tooSoon(seen, last, t) == seen /\ t - last < Window

\* mutant: the reply goes to the port the responder listens on
WriteTo_listenPort(wire, b, addr, t, err) ==
    Append(wire, [to |-> [ip |-> addr.ip, port |-> 32227], payload |-> b, at |-> t,
                  err |-> err])

\* conn.WriteTo(b, addr): the datagram is handed to the network, which takes it
\* or reports an error; wire lists the calls with their outcome
WriteTo(wire, b, addr, t, err) ==
    Append(wire, [to |-> addr, payload |-> b, at |-> t, err |-> err])

AlpacaPorts == {DefaultAlpacaPort, GoInt(8080)}

SourceIPs ==
    {<<127, 0, 0, 1>>, <<192, 168, 1, 10>>, <<192, 168, 1, 11>>, <<192, 168, 2, 10>>}

SourcePorts == {50000, 50001}

Sources == [ip : SourceIPs, port : SourcePorts]

Payloads ==
    {Magic, <<" ">> \o Magic, <<"x">> \o Magic}

HttpVars == <<bk, hw, refresh, router, calls, ret, serverTransactionID,
              inflight, resp, issued, nreq>>

InitDiscovery ==
    /\ Deployed
    /\ serverTransactionID = U32(0)
    /\ inflight = EmptyBag
    /\ resp = NoResp
    /\ issued = <<>>
    /\ nreq = 0
    /\ apiPort \in AlpacaPorts
    /\ DiscoveryIdle

\* StartDiscovery up to its loop: lanIP, reply and the empty map
StartDiscovery ==
    /\ ~listening
    /\ listening' = TRUE
    /\ lanIP' \in outboundIP
    /\ reply' = ReplyText(apiPort)
    /\ recentReplies' = <<>>
    /\ UNCHANGED <<HttpVars, apiPort, now, datagram, replies, nread>>

\* mutant: a probe dropped as a duplicate restarts the window of its source
Turn_restamp(msg, src) ==
    LET srcIP == IP_String(src.ip)
        seen == srcIP \in DOMAIN recentReplies
        last == IF seen THEN recentReplies[srcIP] ELSE 0
    IN  /\ datagram' = [read |-> TRUE, msg |-> msg, src |-> src, at |-> now]
        /\ IF ~HasPrefix(TrimSpace(msg), Magic)
           THEN UNCHANGED <<recentReplies, replies>>
           ELSE IF ~sameSubnet24(srcIP, lanIP)
           THEN UNCHANGED <<recentReplies, replies>>
           ELSE IF tooSoon(seen, last, now)
           THEN /\ recentReplies' = (srcIP :> now) @@ recentReplies
                /\ replies' = replies
           ELSE /\ recentReplies' = (srcIP :> now) @@ recentReplies
                /\ \E err \in BOOLEAN :
                      replies' = WriteTo(replies, reply, src, now, err)

\* the body of the loop on the datagram msg from src: magic, subnet, dedup,
\* reply; a failed WriteTo is logged and the loop goes on
Turn(msg, src) ==
    LET srcIP == IP_String(src.ip)
        seen == srcIP \in DOMAIN recentReplies
        last == IF seen THEN recentReplies[srcIP] ELSE 0
    IN  /\ datagram' = [read |-> TRUE, msg |-> msg, src |-> src, at |-> now]
        /\ IF ~HasPrefix(TrimSpace(msg), Magic)
           THEN UNCHANGED <<recentReplies, replies>>
           ELSE IF ~sameSubnet24(srcIP, lanIP)
           THEN UNCHANGED <<recentReplies, replies>>
           ELSE IF tooSoon(seen, last, now)
           THEN UNCHANGED <<recentReplies, replies>>
           ELSE /\ recentReplies' = (srcIP :> now) @@ recentReplies
                /\ \E err \in BOOLEAN :
                      replies' = WriteTo(replies, reply, src, now, err)

\* one turn of the loop on a datagram
ReadFrom ==
    /\ listening
    /\ nread < MaxProbes
    /\ \E msg \in Payloads : \E src \in Sources : Turn(msg, src)
    /\ nread' = nread + 1
    /\ UNCHANGED <<HttpVars, apiPort, listening, lanIP, reply, now>>

\* conn.ReadFrom returned an error: logged, the loop goes on
ReadFromError ==
    /\ listening
    /\ nread < MaxProbes
    /\ datagram' = NoDatagram
    /\ nread' = nread + 1
    /\ UNCHANGED <<HttpVars, apiPort, listening, lanIP, reply, recentReplies,
                   now, replies>>

\* a second passes
Tick ==
    /\ listening
    /\ now < MaxTime
    /\ now' = now + 1
    /\ UNCHANGED <<HttpVars, apiPort, listening, lanIP, reply, recentReplies,
                   datagram, replies, nread>>

NextDiscovery == StartDiscovery \/ ReadFrom \/ ReadFromError \/ Tick

SpecDiscovery == InitDiscovery /\ [][NextDiscovery]_vars

(***************************************************************************)
(* What the claims speak of, computed from the backends' switch counts     *)
(* alone (never from the Router's table).                                  *)
(***************************************************************************)
Counts == [b \in DOMAIN bk |-> Len(bk[b].sw)]

RECURSIVE SumTo(_, _)
\* c[1] + ... + c[k]
SumTo(c, k) == IF k = 0 THEN 0 ELSE c[k] + SumTo(c, k - 1)

Total == SumTo(Counts, Len(bk))

\* the smallest k with g < c[1] + ... + c[k]
OwnerOf(g) == CHOOSE k \in 1..Len(bk) :
    /\ g < SumTo(Counts, k)
    /\ \A j \in 1..(k - 1) : g >= SumTo(Counts, j)

LocalOf(g) == g - SumTo(Counts, OwnerOf(g) - 1)

\* the int id lies outside [0, total)
OutOfRange(id) == IntNegative(id) \/ IntGeLen(id, Total)

(***************************************************************************)
(* C1: for every ordered list of backends with switch counts c1, c2, ...   *)
(* (zero counts included) the Router NewRouter builds has NumSwitches()    *)
(* equal to the sum of the counts, resolves every global index g in        *)
(* [0, total) to the first backend k with g < c1 + ... + ck and to local   *)
(* index g - (c1 + ... + c(k-1)), and so numbers all switches of an        *)
(* earlier backend before those of a later one.                            *)
(***************************************************************************)
C1_ContiguousIndex ==
    router.built =>
        /\ Router_NumSwitches = Total
        /\ \A g \in 0..(Total - 1) :
              ref(GoInt(g)) = [ref |-> [backend |-> OwnerOf(g), localID |-> LocalOf(g)],
                               ok |-> TRUE]
        /\ \A g1, g2 \in 0..(Router_NumSwitches - 1) :
              ref(GoInt(g1)).ref.backend < ref(GoInt(g2)).ref.backend => g1 < g2

\* a router built over an empty backend, a 2-switch one and a 1-switch one
C1_Witness ==
    /\ router.built
    /\ Len(bk) = 3
    /\ Counts = <<0, 2, 1>>
    /\ Router_NumSwitches = 3

(***************************************************************************)
(* C2: for every global index outside [0, total) every Router operation    *)
(* returns an InvalidIndex error (GetName(3) on the 2 + 1 switch router    *)
(* included).                                                              *)
(***************************************************************************)
C2_InvalidIndexError ==
    (ret.op # "none" /\ OutOfRange(ret.id)) => ret.err = errInvalidID(ret.id)

(***************************************************************************)
(* C3: a Router operation on a global index outside [0, total) calls no    *)
(* backend method and leaves every backend's state as it was.              *)
(***************************************************************************)
C3_NoBackendTouched ==
    [][OutOfRange(ret'.id) =>
          /\ calls' = <<>>
          /\ bk' = bk /\ hw' = hw /\ refresh' = refresh]_vars

\* SetSwitch(5, false) was called after plug 0 had been switched on
C3_Witness ==
    /\ ret.op = "SetSwitch"
    /\ ret.id = GoInt(5)
    /\ OutOfRange(ret.id)
    /\ ret.arg = Typed("bool", FALSE)
    /\ hw[1][1] = TRUE

(***************************************************************************)
(* C4: a Router operation on a global index in [0, total) calls the same   *)
(* operation of the backend owning that index exactly once, with the local *)
(* index and the caller's argument, calls no other backend, and returns    *)
(* the backend's value and error as they are.                              *)
(***************************************************************************)
C4_Delegates ==
    (ret.op # "none" /\ ~OutOfRange(ret.id)) =>
        /\ Len(calls) = 1
        /\ calls[1].op = ret.op
        /\ calls[1].b = OwnerOf(Subscript(ret.id))
        /\ calls[1].id = LocalOf(Subscript(ret.id))
        /\ calls[1].arg = ret.arg
        /\ calls[1].val = ret.val
        /\ calls[1].err = ret.err

\* the camera (global 2, local 0) refused a SetSwitch and the error came back
C4_Witness ==
    /\ ret.op = "SetSwitch"
    /\ ret.id = GoInt(2)
    /\ ~ret.err.nil
    /\ Len(calls) = 1
    /\ calls[1].b = 2
    /\ calls[1].id = 0

(***************************************************************************)
(* What the claims about requests speak of.                                *)
(***************************************************************************)
IdPaths ==
    SwitchReads \cup {"/api/v1/switch/0/setswitch", "/api/v1/switch/0/setswitchname",
                      "/api/v1/switch/0/setswitchvalue"}

\* the text is a non-negative integer an int holds
IsIndexText(v) == v # <<>> /\ Atoi(v).err = "nil" /\ ~IntNegative(Atoi(v).n)

\* a parameter the endpoint requires has no well-formed reading in the request
Invalid(r) ==
    \/ r.path \in IdPaths
       /\ \A v \in getParamAnyCase(r, KeyId) : ~IsIndexText(v)
    \/ r.path = "/api/v1/switch/0/setswitch"
       /\ \A v \in getParamAnyCase(r, KeyState) : v = <<>> \/ ~ParseBool(v).err.nil
    \/ r.path = "/api/v1/switch/0/setswitchvalue"
       /\ \A v \in getParamAnyCase(r, KeyValue) : v = <<>> \/ ~ParseFloat(v).err.nil
    \/ r.path = "/api/v1/switch/0/setswitchname"
       /\ getParamAnyCase(r, KeyName) = {<<>>}
    \/ r.path = "/api/v1/switch/0/connected" /\ r.method = "PUT"
       /\ \A v \in getParamAnyCase(r, KeyConnected) : v = <<>> \/ ~ParseBool(v).err.nil

\* every parameter is well-formed and the Id lies outside [0, total)
BeyondTotal(r) ==
    /\ r.path \in IdPaths
    /\ ~Invalid(r)
    /\ \A v \in getParamAnyCase(r, KeyId) : IsIndexText(v) => OutOfRange(Atoi(v).n)

\* the texts of the IDs the request names
IdTexts(r) == {Itoa(Atoi(v).n) : v \in {x \in getParamAnyCase(r, KeyId) : IsIndexText(x)}}

\* text t occurs in text m
Contains(m, t) == \E i \in 1..(Len(m) - Len(t) + 1) : SubSeq(m, i, i + Len(t) - 1) = t

\* the handler p was started by this step
Started(p) == inflight' = inflight (+) SetToBag({p})

\* the decimal text of a uint32
U32Text(u) == Itoa([neg |-> FALSE, mag |-> <<u[1], u[2], 0, 0>>])

(***************************************************************************)
(* C5: whatever the interleaving of concurrently handled requests, the     *)
(* ServerTransactionIDs of the n envelope responses sent so far are        *)
(* pairwise distinct and are exactly the integers 1..n, without gaps.      *)
(***************************************************************************)
C5_DistinctGapless ==
    /\ \A i, j \in 1..Len(issued) : i # j => issued[i] # issued[j]
    /\ {issued[i] : i \in 1..Len(issued)} = {U32(k) : k \in 1..Len(issued)}

\* two handlers overlapped and the one that arrived first answered last
C5_Witness ==
    /\ resp.sent /\ resp.envelope
    /\ Len(issued) = 2
    /\ resp.arrival = 1

(***************************************************************************)
(* C6: the ServerTransactionID strictly increases from one response to the *)
(* next over the life of the server and never repeats, also once 2^32      *)
(* responses have been sent.                                               *)
(***************************************************************************)
C6_StrictlyIncreasing ==
    \A i \in 1..(Len(issued) - 1) : U32Less(issued[i], issued[i + 1])

(***************************************************************************)
(* C7: the ClientTransactionID of a response is the value the request      *)
(* supplied when that is a valid non-negative integer, and 0 otherwise: no *)
(* response carries a number other than 0 that the client did not send.    *)
(***************************************************************************)
C7_EchoedOrZero ==
    (resp.sent /\ resp.envelope) =>
        \/ resp.ClientTransactionID = U32(0)
        \/ \E v \in getParamAnyCase(resp.req, KeyClientTransactionID) :
              /\ IsIndexText(v)
              /\ U32Text(resp.ClientTransactionID) = Itoa(Atoi(v).n)

(***************************************************************************)
(* C8: a request whose required parameter is missing or malformed is       *)
(* answered with the error before any Router operation or any backend      *)
(* Connect / Disconnect is invoked: the handler calls no backend and       *)
(* leaves every backend as it was.                                         *)
(***************************************************************************)
C8_ValidationFirst ==
    [][\A p \in BagToSet(inflight') :
          (Started(p) /\ Invalid(p.req)) =>
              /\ p.log = <<>>
              /\ calls' = <<>>
              /\ bk' = bk /\ hw' = hw /\ refresh' = refresh
              /\ p.status = StatusBadRequest
              /\ p.ErrorNumber = ErrBadRequest]_vars

\* setswitch with a State that is no boolean was answered, switch 0 being on
C8_Witness ==
    /\ resp.sent /\ resp.envelope
    /\ resp.req.path = "/api/v1/switch/0/setswitch"
    /\ getParamAnyCase(resp.req, KeyId) = {<<"0">>}
    /\ getParamAnyCase(resp.req, KeyState) = {<<"yes">>}
    /\ resp.status = StatusBadRequest
    /\ hw[1][1]

(***************************************************************************)
(* C9: a response to a request that succeeded carries ErrorNumber 0, an    *)
(* empty ErrorMessage and HTTP status 200; a response to a request that    *)
(* failed (a parameter missing or malformed, a switch ID out of range, an  *)
(* error returned by a backend, an unsupported action) carries ErrorNumber *)
(* 0x400, a non-empty ErrorMessage and HTTP status 400.                    *)
(***************************************************************************)
C9_ErrorContract ==
    (resp.sent /\ resp.envelope) =>
        IF \/ Invalid(resp.req)
           \/ BeyondTotal(resp.req)
           \/ \E i \in 1..Len(resp.log) : ~resp.log[i].err.nil
           \/ <<resp.req.method, resp.req.path, "handleNotSupported">> \in Routes
        THEN /\ resp.ErrorNumber = ErrBadRequest
             /\ resp.ErrorMessage # <<>>
             /\ resp.status = StatusBadRequest
        ELSE /\ resp.ErrorNumber = 0
             /\ resp.ErrorMessage = <<>>
             /\ resp.status = StatusOK

(***************************************************************************)
(* C10: a PUT to setswitch, setswitchvalue or setswitchname whose          *)
(* parameters are well-formed and whose Id is not below the total number   *)
(* of switches is answered with ErrorNumber 0x400 and a message that names *)
(* the ID, and the handler leaves every backend as it was.                 *)
(***************************************************************************)
C10_WriteBeyondTotal ==
    [][\A p \in BagToSet(inflight') :
          (Started(p) /\ p.req.method = "PUT" /\ BeyondTotal(p.req)) =>
              /\ p.ErrorNumber = ErrBadRequest
              /\ p.status = StatusBadRequest
              /\ \A t \in IdTexts(p.req) : Contains(p.ErrorMessage, t)
              /\ p.log = <<>>
              /\ bk' = bk /\ hw' = hw /\ refresh' = refresh]_vars

\* setswitch for Id 5 on the three-switch router was answered, switch 0 being on
C10_Witness ==
    /\ resp.sent /\ resp.envelope
    /\ resp.req.path = "/api/v1/switch/0/setswitch"
    /\ getParamAnyCase(resp.req, KeyId) = {<<"5">>}
    /\ getParamAnyCase(resp.req, KeyState) = {<<"true">>}
    /\ resp.ErrorNumber = ErrBadRequest
    /\ Total = 3
    /\ hw[1][1]

(***************************************************************************)
(* C11: on every switch endpoint that takes an Id, a request whose Id lies *)
(* outside [0, total) (its other parameters being well-formed) is answered *)
(* with an error envelope, ErrorNumber 0x400 and HTTP status 400, never    *)
(* with a success envelope that carries a default value.                   *)
(***************************************************************************)
C11_OutOfRangeIsError ==
    (resp.sent /\ resp.envelope /\ BeyondTotal(resp.req)) =>
        /\ resp.ErrorNumber = ErrBadRequest
        /\ resp.status = StatusBadRequest
        /\ resp.Value.type = "string"
        /\ resp.Value.s = resp.ErrorMessage

(***************************************************************************)
(* C12: GET connected answers true exactly if every registered backend is  *)
(* connected when the handler runs; it asks the backends in list order and *)
(* answers false at the first one that is not connected, whatever the      *)
(* backends after it report.                                               *)
(***************************************************************************)
C12_AllConnected ==
    [][\A p \in BagToSet(inflight') :
          (Started(p) /\ p.req.method = "GET"
                      /\ p.req.path = "/api/v1/switch/0/connected") =>
              LET down == {b \in DOMAIN bk : ~bk[b].connected}
                  asked == IF down = {} THEN Len(bk)
                           ELSE CHOOSE b \in down : \A d \in down : b <= d
              IN  /\ p.status = StatusOK /\ p.ErrorNumber = 0
                  /\ p.Value.type = "bool"
                  /\ p.Value.b = (down = {})
                  /\ Len(p.log) = asked
                  /\ \A k \in 1..asked : /\ p.log[k].op = "IsConnected"
                                         /\ p.log[k].b = k]_vars

\* three backends, only the second one not connected: the answer sent is false
C12_Witness ==
    /\ resp.sent /\ resp.envelope
    /\ resp.req.method = "GET" /\ resp.req.path = "/api/v1/switch/0/connected"
    /\ Len(bk) = 3
    /\ bk[1].connected /\ ~bk[2].connected /\ bk[3].connected
    /\ resp.Value.b = FALSE

(***************************************************************************)
(* C13: a PUT connected with a valid Connected value calls Connect (true)  *)
(* or Disconnect (false) on every registered backend exactly once, in list *)
(* order, goes on to the next backend whatever happens in a call, and is   *)
(* answered with a success envelope.                                       *)
(***************************************************************************)
C13_FanOut ==
    [][\A p \in BagToSet(inflight') :
          (Started(p) /\ p.req.method = "PUT"
                      /\ p.req.path = "/api/v1/switch/0/connected"
                      /\ ~Invalid(p.req)) =>
              \E v \in getParamAnyCase(p.req, KeyConnected) :
                 /\ ParseBool(v).err.nil
                 /\ p.status = StatusOK /\ p.ErrorNumber = 0 /\ p.ErrorMessage = <<>>
                 /\ Len(p.log) = Len(bk)
                 /\ \A k \in 1..Len(bk) :
                       /\ p.log[k].b = k
                       /\ p.log[k].op = IF ParseBool(v).v THEN "Connect" ELSE "Disconnect"
                       /\ bk'[k].connected = ParseBool(v).v]_vars

\* connected=true was answered with success on three backends; the camera in
\* the middle could not be queried (its light is on, its cached value is not)
\* and the backend after it was connected all the same
C13_Witness ==
    /\ resp.sent /\ resp.envelope
    /\ resp.req.method = "PUT" /\ resp.req.path = "/api/v1/switch/0/connected"
    /\ resp.status = StatusOK
    /\ Len(resp.log) = 3
    /\ Len(bk) = 3
    /\ bk[2].kind = "hikvision" /\ hw[2][1] /\ bk[2].sw[1].Value = 0
    /\ bk[3].connected

(***************************************************************************)
(* C14: in every server state a request to action, commandblind,           *)
(* commandbool or commandstring is answered with an envelope with          *)
(* ErrorNumber 0x400 and the "not supported" texts, and its handler calls  *)
(* no Router method and no backend and leaves the backends as they were.   *)
(***************************************************************************)
C14_NotSupported ==
    [][\A p \in BagToSet(inflight') :
          (Started(p) /\ p.req.method = "PUT"
                      /\ p.req.path \in {"/api/v1/switch/0/action",
                                         "/api/v1/switch/0/commandblind",
                                         "/api/v1/switch/0/commandbool",
                                         "/api/v1/switch/0/commandstring"}) =>
              /\ p.ErrorNumber = ErrBadRequest
              /\ p.status = StatusBadRequest
              /\ p.ErrorMessage = <<"action not supported">>
              /\ p.Value = Typed("string", <<"not supported">>)
              /\ p.log = <<>>
              /\ calls' = <<>>
              /\ bk' = bk /\ hw' = hw /\ refresh' = refresh]_vars

\* commandstring was answered after the backends had been connected
C14_Witness ==
    /\ resp.sent /\ resp.envelope
    /\ resp.req.path = "/api/v1/switch/0/commandstring"
    /\ resp.ErrorNumber = ErrBadRequest
    /\ bk[1].connected /\ bk[2].connected

(***************************************************************************)
(* Parameter extraction on its own: one request that carries one parameter *)
(* under one key, the key spelled in any letter case.                      *)
(***************************************************************************)
ParamNames == {KeyId, KeyState, KeyName, KeyValue, KeyConnected, KeyClientTransactionID}

\* unicode.ToUpper on the letters that occur in parameter names
ToUpper(c) ==
    IF \E i \in DOMAIN Lowers : Lowers[i] = c
    THEN Uppers[CHOOSE i \in DOMAIN Lowers : Lowers[i] = c]
    ELSE c

\* Every spelling of a short name, and the given, lower-case and upper-case
\* spellings of a long one.
MaxSpelled == 5

RECURSIVE AllCases(_)
AllCases(name) ==
    IF name = <<>> THEN {<<>>}
    ELSE {<<c>> \o rest : c \in {ToLower(name[1]), ToUpper(name[1])},
                          rest \in AllCases(Tail(name))}

Spellings(name) ==
    IF Len(name) <= MaxSpelled THEN AllCases(name)
    ELSE {name, [i \in 1..Len(name) |-> ToLower(name[i])],
                [i \in 1..Len(name) |-> ToUpper(name[i])]}

ParamTexts == {<<"0">>, <<"1">>, <<"t", "r", "u", "e">>, <<"2", ".", "5">>}

Extracted(r, name, key, text) ==
    /\ \E v \in getParamAnyCase(r, name) :
          ret' = [op |-> "getParamAnyCase", method |-> r.method, name |-> name,
                  key |-> key, text |-> text, out |-> v]
    /\ resp' = NoResp
    /\ UNCHANGED <<BackendVars, router, calls, serverTransactionID, inflight,
                   issued, nreq, DiscoveryVars>>

\* a read: the parameter is in the URL's query
ExtractQuery ==
    \E name \in ParamNames : \E key \in Spellings(name) : \E text \in ParamTexts :
        Extracted(HttpGet("/api/v1/switch/0/getswitch", Param(key, text)),
                  name, key, text)

\* a write: the parameter is in the form body
ExtractForm ==
    \E name \in ParamNames : \E key \in Spellings(name) : \E text \in ParamTexts :
        Extracted(HttpPut("/api/v1/switch/0/setswitch", NoParams, Param(key, text)),
                  name, key, text)

NextParams == ExtractQuery \/ ExtractForm

SpecParams == Init /\ [][NextParams]_vars

(***************************************************************************)
(* C15: a request that carries a parameter under exactly one key yields    *)
(* the value it carries whatever the letter case of the key, from the      *)
(* query of a read and from the form of a write.                           *)
(***************************************************************************)
C15_AnyCase ==
    ret.op = "getParamAnyCase" => ret.out = ret.text

\* "sTaTe" of a write, or "ID" of a read, was found under the name State or Id
C15_Witness ==
    /\ ret.op = "getParamAnyCase"
    /\ \/ ret.method = "PUT" /\ ret.key = <<"s", "T", "a", "T", "e">>
       \/ ret.method = "GET" /\ ret.key = <<"I", "D">>
    /\ ret.key # ret.name
    /\ ret.out = ret.text

(***************************************************************************)
(* C16: no reply is sent to a datagram whose payload does not begin with   *)
(* the magic string, white space before the magic string included.         *)
(***************************************************************************)
C16_ExactMagicOnly ==
    [][replies' # replies => HasPrefix(datagram'.msg, Magic)]_vars

\* The source is the loopback address (net.IP.IsLoopback: 127.0.0.0/8).
IsLoopback(ip) == ip[1] = 127

\* the source shares its first three octets with the address lanIP spells
SharesPrefix(ip, text) ==
    LET prefix == Itoa(GoInt(ip[1])) \o <<".">> \o Itoa(GoInt(ip[2])) \o <<".">>
                  \o Itoa(GoInt(ip[3])) \o <<".">>
    IN  /\ HasPrefix(text, prefix)
        /\ Len(text) > Len(prefix)
        /\ \A i \in (Len(prefix) + 1)..Len(text) : IsDigit(text[i])

\* the loop has just read a probe that begins with the magic string
ValidProbeRead ==
    /\ nread' = nread + 1
    /\ datagram'.read
    /\ HasPrefix(datagram'.msg, Magic)

\* no reply to the source IP has been sent in the last two seconds
NotAnsweredLately(ip) ==
    \A i \in DOMAIN replies : replies[i].to.ip = ip => now - replies[i].at >= Window

(***************************************************************************)
(* C17: a valid probe from 127.0.0.1 gets a reply unless that address was  *)
(* answered less than 2 seconds before, whatever lanIP is.                 *)
(***************************************************************************)
C17_LoopbackAnswered ==
    [][(/\ ValidProbeRead
        /\ datagram'.src.ip = <<127, 0, 0, 1>>
        /\ NotAnsweredLately(datagram'.src.ip))
       => \E err \in BOOLEAN :
             replies' = Append(replies, [to |-> datagram'.src, payload |-> reply,
                                         at |-> now, err |-> err])]_vars

(***************************************************************************)
(* C18: no two replies to the same source IP, whatever the source ports,   *)
(* are handed to WriteTo less than 2 seconds apart, and for every valid    *)
(* probe from the local /24 a reply to its IP was handed to WriteTo at it  *)
(* or less than 2 seconds before it.                                       *)
(***************************************************************************)
C18_OncePerWindow ==
    /\ \A i, j \in DOMAIN replies :
          (i < j /\ replies[i].to.ip = replies[j].to.ip)
              => replies[j].at - replies[i].at >= Window
    /\ (/\ datagram.read
        /\ HasPrefix(datagram.msg, Magic)
        /\ SharesPrefix(datagram.src.ip, lanIP))
       => \E i \in DOMAIN replies :
             /\ replies[i].to.ip = datagram.src.ip
             /\ datagram.at - replies[i].at < Window

\* a second probe from the same IP and another port, one second after the
\* first was answered, was dropped
C18_Witness ==
    /\ datagram.read
    /\ HasPrefix(datagram.msg, Magic)
    /\ Len(replies) = 1
    /\ ~replies[1].err
    /\ replies[1].to.ip = datagram.src.ip
    /\ replies[1].to.port # datagram.src.port
    /\ datagram.at = replies[1].at + 1
    /\ nread = 2

(***************************************************************************)
(* C19: a valid probe from a source that is not loopback and does not      *)
(* share the first three octets with lanIP produces no reply and leaves    *)
(* recentReplies as it was.                                                *)
(***************************************************************************)
C19_OffSubnetIgnored ==
    [][(/\ ValidProbeRead
        /\ ~IsLoopback(datagram'.src.ip)
        /\ ~SharesPrefix(datagram'.src.ip, lanIP))
       => (replies' = replies /\ recentReplies' = recentReplies)]_vars

\* a valid probe from 192.168.2.10 was read while lanIP is 192.168.1.5,
\* after 192.168.1.10 had been answered
C19_Witness ==
    /\ datagram.read
    /\ datagram.msg = Magic
    /\ datagram.src.ip = <<192, 168, 2, 10>>
    /\ ParseIPTo4(lanIP) = <<192, 168, 1, 5>>
    /\ Len(replies) = 1
    /\ DOMAIN recentReplies = {IP_String(<<192, 168, 1, 10>>)}
    /\ nread = 2

\* the decimal text of a port given as a small number
PortDigits(text) == text # <<>> /\ \A i \in 1..Len(text) : IsDigit(text[i])

(***************************************************************************)
(* C20: every reply carries the apiPort StartDiscovery was given, which    *)
(* never changes, and goes to the IP and port of the probe that            *)
(* triggered it.                                                           *)
(***************************************************************************)
C20_PortAndAddress ==
    [][/\ apiPort' = apiPort
       /\ replies' # replies =>
            /\ Len(replies') = Len(replies) + 1
            /\ SubSeq(replies', 1, Len(replies)) = replies
            /\ datagram'.read
            /\ replies'[Len(replies')].to = datagram'.src
            /\ LET b == replies'[Len(replies')].payload
               IN  /\ Len(b) > 5
                   /\ SubSeq(b, 1, 3) = <<"{", "\n", "\"AlpacaPort\":">>
                   /\ SubSeq(b, Len(b) - 1, Len(b)) = <<"\n", "}">>
                   /\ PortDigits(SubSeq(b, 4, Len(b) - 2))
                   /\ Atoi(SubSeq(b, 4, Len(b) - 2)).n = apiPort]_vars

\* two sources were answered, each at its own port, with port 8080
C20_Witness ==
    /\ Len(replies) = 2
    /\ ~replies[1].err /\ ~replies[2].err
    /\ replies[1].to.ip # replies[2].to.ip
    /\ replies[1].to.port # replies[2].to.port
    /\ replies[2].to = datagram.src
    /\ apiPort = GoInt(8080)
    /\ replies[2].payload = <<"{", "\n", "\"AlpacaPort\":", "8", "0", "8", "0", "\n", "}">>

(***************************************************************************)
(* The backends on their own: the SwitchBackend methods called one after   *)
(* the other on a Mi backend with one plug, configured in every way, and a *)
(* Hikvision backend with two cameras, while the devices change and the    *)
(* Mi refresh goroutines run.  ret holds the last call, its results and    *)
(* its number.                                                             *)
(***************************************************************************)
MaxCalls == 2        \* SwitchBackend calls in one run

\* the plug as the configuration file may describe it
MiConfigs ==
    {[MiDevice(0) EXCEPT !.Max = max, !.Canwrite = canwrite] :
        max \in {1, 2}, canwrite \in BOOLEAN}

BackendDeployments ==
    {<<[kind |-> "mi", connected |-> FALSE, sw |-> <<d>>], HikNew(2)>> : d \in MiConfigs}

\* float64 values in tenths: 0, 0.5, 1, 2
BackendFloats == {0, 5, 10, 20}

InitBackend ==
    /\ bk \in BackendDeployments
    /\ hw = HwOff(bk)
    /\ refresh = NoRefresh(bk)
    /\ router = NewRouter([bk |-> bk, hw |-> hw, refresh |-> refresh, calls |-> <<>>],
                          InOrder(Len(bk)))
    /\ calls = <<>>
    /\ ret = [op |-> "none", seq |-> 0]
    /\ ServerFresh

\* backend b's method op returned r
Called(op, b, id, arg, type, io, r) ==
    /\ ret.seq < MaxCalls
    /\ bk' = r.w.bk
    /\ hw' = r.w.hw
    /\ refresh' = r.w.refresh
    /\ calls' = r.w.calls
    /\ ret' = [op |-> op, seq |-> ret.seq + 1, b |-> b, id |-> id, arg |-> arg,
               val |-> Typed(type, r.val), err |-> r.err, io |-> io]
    /\ UNCHANGED <<router, ServerVars, DiscoveryVars>>

LocalIDs(b) == 0..(Len(bk[b].sw) - 1)

\* the local indices a set is called with: the valid ones and the count
SetIDs(b) == 0..Len(bk[b].sw)

Backend_GetCanWrite ==
    \E b \in DOMAIN bk : \E id \in LocalIDs(b) :
        Called("GetCanWrite", b, id, None, "bool", <<"ok">>,
               SwitchBackend_GetCanWrite(Entry, b, id))

Backend_GetSwitch ==
    \E b \in DOMAIN bk : \E id \in LocalIDs(b) : \E io \in IOs :
        Called("GetSwitch", b, id, None, "bool", <<io>>,
               SwitchBackend_GetSwitch(Entry, b, id, io))

Backend_GetSwitchValue ==
    \E b \in DOMAIN bk : \E id \in LocalIDs(b) :
        Called("GetSwitchValue", b, id, None, "float64", <<"ok">>,
               SwitchBackend_GetSwitchValue(Entry, b, id))

Backend_SetSwitch ==
    \E b \in DOMAIN bk : \E id \in SetIDs(b) : \E state \in BOOLEAN, io \in IOs :
        Called("SetSwitch", b, id, Typed("bool", state), "none", <<io>>,
               SwitchBackend_SetSwitch(Entry, b, id, state, io))

Backend_SetSwitchValue ==
    \E b \in DOMAIN bk : \E id \in SetIDs(b) : \E value \in BackendFloats, io \in IOs :
        Called("SetSwitchValue", b, id, Typed("float64", value), "none", <<io>>,
               SwitchBackend_SetSwitchValue(Entry, b, id, value, io))

\* every camera answers, or none does, or only the first, or only the second;
\* the call's io is what the cameras of the backend do, one after the other
Backend_Connect ==
    \E b \in DOMAIN bk : \E io \in [DOMAIN bk -> [1..2 -> IOs]] :
        Called("Connect", b, 0, None, "none", io[b],
               SwitchBackend_Connect(Entry, b, io))

Backend_Disconnect ==
    \E b \in DOMAIN bk :
        Called("Disconnect", b, 0, None, "none", <<"ok">>,
               SwitchBackend_Disconnect(Entry, b))

Backend_IsConnected ==
    \E b \in DOMAIN bk :
        Called("IsConnected", b, 0, None, "bool", <<"ok">>,
               SwitchBackend_IsConnected(Entry, b))

\* somebody else switches a device
DeviceChange ==
    /\ \E b \in DOMAIN hw : \E i \in DOMAIN hw[b] :
          hw' = [hw EXCEPT ![b][i] = ~@]
    /\ UNCHANGED <<bk, refresh, router, calls, ret, ServerVars, DiscoveryVars>>

NextBackend ==
    \/ Backend_GetCanWrite \/ Backend_GetSwitch \/ Backend_GetSwitchValue
    \/ Backend_SetSwitch \/ Backend_SetSwitchValue
    \/ Backend_Connect \/ Backend_Disconnect \/ Backend_IsConnected
    \/ DeviceChange
    \/ \E b \in DOMAIN bk : \E i \in DOMAIN bk[b].sw : miQueryPower(b, i)
    \/ \E b \in DOMAIN bk : \E i \in DOMAIN bk[b].sw : StoreDeviceState(b, i)

SpecBackend == InitBackend /\ [][NextBackend]_vars

\* the world a call that has just returned leaves to the next call
Left == [bk |-> bk', hw |-> hw', refresh |-> refresh', calls |-> <<>>]

\* this step is a call of op that returned no error
Succeeds(op) == ret'.seq = ret.seq + 1 /\ ret'.op = op /\ ret'.err.nil

(***************************************************************************)
(* C21: on every backend and every switch, a SetSwitch(i, s) that returned *)
(* no error is followed, when nothing runs in between and the device       *)
(* answers, by a GetSwitch(i) that returns s.                              *)
(***************************************************************************)
C21_StateRoundTrip ==
    [][Succeeds("SetSwitch") =>
          LET g == SwitchBackend_GetSwitch(Left, ret'.b, ret'.id, "ok")
          IN  g.err.nil /\ g.val = ret'.arg.b]_vars

(***************************************************************************)
(* C22: on every backend and every switch, a SetSwitchValue(i, v) with     *)
(* GetMin(i) <= v <= GetMax(i) that returned no error is followed, when    *)
(* nothing runs in between, by a GetSwitchValue(i) that returns v.         *)
(***************************************************************************)
C22_ValueRoundTrip ==
    [][(/\ Succeeds("SetSwitchValue")
        /\ SwitchBackend_GetMin(Left, ret'.b, ret'.id).val <= ret'.arg.n
        /\ ret'.arg.n <= SwitchBackend_GetMax(Left, ret'.b, ret'.id).val) =>
          LET g == SwitchBackend_GetSwitchValue(Left, ret'.b, ret'.id)
          IN  g.err.nil /\ g.val = ret'.arg.n]_vars

(***************************************************************************)
(* C23: on a switch whose GetCanWrite is false, SetSwitch and              *)
(* SetSwitchValue return an error, send the device nothing and leave the   *)
(* cached value as it was.                                                 *)
(***************************************************************************)
C23_ReadOnlyRefused ==
    [][(/\ ret'.seq = ret.seq + 1
        /\ ret'.op \in {"SetSwitch", "SetSwitchValue"}
        /\ ~SwitchBackend_GetCanWrite(Entry, ret'.b, ret'.id).val)
       => (~ret'.err.nil /\ hw' = hw /\ bk' = bk)]_vars

\* the cached value that stands for a device state
Cached(on) == IF on THEN 1 ELSE 0

(***************************************************************************)
(* C24: whatever the devices do, Connect returns no error and leaves the   *)
(* backend connected, Disconnect leaves it not connected, nothing else     *)
(* changes the flag and IsConnected returns it.  A Hikvision Connect       *)
(* stores the state of every camera that answers and keeps the cached      *)
(* value of the others; a Mi Connect starts one query for every plug.      *)
(***************************************************************************)
C24_LastCallDecides ==
    [][IF ret'.seq = ret.seq + 1 /\ ret'.op \in {"Connect", "Disconnect"}
       THEN /\ ret'.err.nil
            /\ bk'[ret'.b].connected = (ret'.op = "Connect")
            /\ \A b \in DOMAIN bk : b # ret'.b => bk'[b].connected = bk[b].connected
            /\ (ret'.op = "Connect" /\ bk[ret'.b].kind = "hikvision") =>
                  \A i \in DOMAIN bk[ret'.b].sw :
                      bk'[ret'.b].sw[i].Value =
                          IF ret'.io[i] = "ok" THEN Cached(hw[ret'.b][i])
                          ELSE bk[ret'.b].sw[i].Value
            /\ (ret'.op = "Connect" /\ bk[ret'.b].kind = "mi") =>
                  \A i \in DOMAIN bk[ret'.b].sw :
                      refresh'[ret'.b][i].query = refresh[ret'.b][i].query + 1
       ELSE /\ \A b \in DOMAIN bk : bk'[b].connected = bk[b].connected
            /\ (ret'.seq = ret.seq + 1 /\ ret'.op = "IsConnected") =>
                  ret'.val.b = bk[ret'.b].connected]_vars

\* Connect has returned no error with both cameras on, the first answering
\* and the second not
C24_Witness ==
    /\ ret.op = "Connect" /\ ret.b = 2 /\ ret.err.nil
    /\ ret.io = <<"ok", "fail">>
    /\ hw[2] = <<TRUE, TRUE>>
    /\ bk[2].connected
    /\ bk[2].sw[1].Value = 1
    /\ bk[2].sw[2].Value = 0

(***************************************************************************)
(* The backends under concurrent callers.  Each handler goroutine that is  *)
(* inside SetSwitch, or inside the Hikvision GetSwitch, is a record of the *)
(* bag inflight: n its number, done the calls that had returned when it    *)
(* started, pc where it stands (lock: waiting for b.deviceLock[id], io:    *)
(* in the device I/O, hung: in a device I/O that never returns, store:     *)
(* about to write the cached value and return).  calls lists the calls     *)
(* that have returned, in the order they returned.                         *)
(***************************************************************************)
Goroutines == BagToSet(inflight)

StartedCalls == Len(calls) + BagCardinality(inflight)

Goroutine(op, b, id, state, pc) ==
    [n |-> StartedCalls + 1, done |-> Len(calls), op |-> op, b |-> b, id |-> id,
     state |-> state, pc |-> pc, sample |-> FALSE]

\* the call of goroutine g returns val and err
Return(g, val, err) ==
    /\ calls' = Append(calls, [n |-> g.n, done |-> g.done, op |-> g.op, b |-> g.b,
                               id |-> g.id, arg |-> Typed("bool", g.state),
                               val |-> val, err |-> err])
    /\ inflight' = inflight (-) SetToBag({g})

Moved(g, pc, sample) ==
    /\ inflight' = (inflight (-) SetToBag({g}))
                   (+) SetToBag({[g EXCEPT !.pc = pc, !.sample = sample]})
    /\ calls' = calls

LiveFrame == <<router, ret, serverTransactionID, resp, issued, nreq, refresh,
               DiscoveryVars>>

\* GetSwitchValue, and the Mi GetSwitch, read the cache under b.mu and return
Live_GetSwitchValue ==
    /\ StartedCalls < MaxCalls
    /\ \E b \in DOMAIN bk : \E id \in LocalIDs(b) :
          LET g == Goroutine("GetSwitchValue", b, id, FALSE, "io")
              r == IF IsMi(World, b) THEN Mi_GetSwitchValue(World, b, id)
                   ELSE Hik_GetSwitchValue(World, b, id)
          IN  Return(g, Typed("float64", r.val), r.err)
    /\ UNCHANGED <<bk, hw, LiveFrame>>

Live_MiGetSwitch ==
    /\ StartedCalls < MaxCalls
    /\ \E b \in DOMAIN bk : \E id \in LocalIDs(b) :
          /\ IsMi(World, b)
          /\ LET g == Goroutine("GetSwitch", b, id, FALSE, "io")
                 r == Mi_GetSwitch(World, b, id)
             IN  Return(g, Typed("bool", r.val), r.err)
    /\ UNCHANGED <<bk, hw, LiveFrame>>

\* hikvision GetSwitch: id checked, cam read under b.mu.RLock, lock released
Live_HikGetSwitch ==
    /\ StartedCalls < MaxCalls
    /\ \E b \in DOMAIN bk : \E id \in LocalIDs(b) :
          /\ ~IsMi(World, b)
          /\ inflight' = inflight (+) SetToBag({Goroutine("GetSwitch", b, id, FALSE, "io")})
    /\ UNCHANGED <<bk, hw, calls, LiveFrame>>

\* SetSwitch: id checked; the Mi backend goes on to b.deviceLock[id].Lock()
Live_SetSwitch ==
    /\ StartedCalls < MaxCalls
    /\ \E b \in DOMAIN bk : \E id \in LocalIDs(b) : \E state \in BOOLEAN :
          inflight' = inflight (+) SetToBag({Goroutine("SetSwitch", b, id, state,
                                                       IF IsMi(World, b) THEN "lock"
                                                       ELSE "io")})
    /\ UNCHANGED <<bk, hw, calls, LiveFrame>>

\* mutant: SetSwitch takes no per-device lock
DeviceLockHeld_never(b, id) == FALSE

\* b.deviceLock[id] is held from Lock() to the deferred Unlock() at return
DeviceLockHeld(b, id) ==
    \E h \in Goroutines :
        /\ h.op = "SetSwitch" /\ h.b = b /\ h.id = id /\ IsMi(World, b)
        /\ h.pc \in {"io", "hung", "store"}

\* b.deviceLock[id].Lock() returns
DeviceLock(g) ==
    /\ g.pc = "lock"
    /\ ~DeviceLockHeld(g.b, g.id)
    /\ Moved(g, "io", FALSE)
    /\ UNCHANGED <<bk, hw, LiveFrame>>

\* miOnOff, setIRLight or getIRLight: the device answers, fails, or never returns
DeviceIO(g) ==
    /\ g.pc = "io"
    /\ \E io \in IOs \cup {"hang"} :
          IF io = "hang" THEN Moved(g, "hung", FALSE) /\ hw' = hw
          ELSE IF g.op = "SetSwitch"
          THEN LET r == IF IsMi(World, g.b) THEN miOnOff(World, g.b, g.id, g.state, io)
                        ELSE setIRLight(World, g.b, g.id, g.state, io)
               IN  /\ hw' = r.w.hw
                   /\ IF r.err.nil THEN Moved(g, "store", FALSE)
                      ELSE Return(g, None, r.err)
          ELSE LET r == getIRLight(World, g.b, g.id, io)
               IN  /\ hw' = hw
                   /\ IF r.err.nil THEN Moved(g, "store", r.val)
                      ELSE Return(g, Typed("bool", FALSE), r.err)
    /\ UNCHANGED <<bk, LiveFrame>>

\* b.mu.Lock(); Value = 1 or 0; b.mu.Unlock(); return
StoreValue(g) ==
    /\ g.pc = "store"
    /\ LET on == IF g.op = "SetSwitch" THEN g.state ELSE g.sample
       IN  /\ bk' = SetField(World, g.b, g.id, "Value", IF on THEN 1 ELSE 0).bk
           /\ IF g.op = "SetSwitch" THEN Return(g, None, Nil)
              ELSE Return(g, Typed("bool", on), Nil)
    /\ UNCHANGED <<hw, LiveFrame>>

\* a goroutine takes its next step
Advance == \E g \in Goroutines : DeviceLock(g) \/ DeviceIO(g) \/ StoreValue(g)

NextLive ==
    \/ Live_GetSwitchValue \/ Live_MiGetSwitch \/ Live_HikGetSwitch \/ Live_SetSwitch
    \/ \E g \in Goroutines : DeviceLock(g)
    \/ \E g \in Goroutines : DeviceIO(g)
    \/ \E g \in Goroutines : StoreValue(g)

\* every goroutine that can take a step does so in the end
SpecLive == Init /\ [][NextLive]_vars /\ WF_vars(Advance)

Running(k) == \E g \in Goroutines : g.n = k /\ g.pc # "hung"

Hung(k) == \E g \in Goroutines : g.n = k /\ g.pc = "hung"

Finished(k) == \E i \in DOMAIN calls : calls[i].n = k

(***************************************************************************)
(* C25: a call whose device I/O never returns blocks itself only: every    *)
(* other call in progress, a SetSwitch of the same switch included,        *)
(* returns in the end.                                                     *)
(***************************************************************************)
C25_HangBlocksOnlyItself ==
    \A k \in 1..MaxCalls : Running(k) ~> (Finished(k) \/ Hung(k))

\* the successful SetSwitch calls on switch id of backend b that have returned
SetsOf(b, id) ==
    {i \in DOMAIN calls : /\ calls[i].op = "SetSwitch" /\ calls[i].err.nil
                          /\ calls[i].b = b /\ calls[i].id = id}

\* call i returned after every other SetSwitch of its switch had returned or
\* failed, and none has started since
LatestSet(i) ==
    /\ \A g \in Goroutines :
          ~(g.op = "SetSwitch" /\ g.b = calls[i].b /\ g.id = calls[i].id)
    /\ \A j \in DOMAIN calls :
          (/\ j # i /\ calls[j].op = "SetSwitch"
           /\ calls[j].b = calls[i].b /\ calls[j].id = calls[i].id)
              => (j < i /\ calls[i].done >= j)

(***************************************************************************)
(* C26: on the Hikvision backend, once SetSwitch(i, s) has returned no     *)
(* error and until another SetSwitch of that camera starts, the cached     *)
(* value GetSwitchValue(i) returns and the state a live GetSwitch(i)       *)
(* reads are s, also when a GetSwitch(i) was in progress during the set.   *)
(***************************************************************************)
C26_SetSurvivesLiveRead ==
    \A b \in DOMAIN bk : \A id \in LocalIDs(b) : \A i \in SetsOf(b, id) :
        (~IsMi(World, b) /\ LatestSet(i)) =>
            /\ Hik_GetSwitchValue(World, b, id).val = Float64(Cached(calls[i].arg.b))
            /\ getIRLight(World, b, id, "ok").val = calls[i].arg.b

\* the router NewRouter returned to main, before any request
Constructed ==
    NewRouter([bk |-> Deployment, hw |-> HwOff(Deployment),
               refresh |-> NoRefresh(Deployment), calls |-> <<>>],
              InOrder(Len(Deployment)))

\* the handlers that have answered /maxswitch and not sent the response yet
MaxSwitchAnswers == {p \in BagToSet(inflight) : p.req.path = "/api/v1/switch/0/maxswitch"}

(***************************************************************************)
(* C27: whatever requests the server has handled (setswitchname, setswitch,*)
(* connected true or false, ...), NumSwitches() and /maxswitch give the    *)
(* total the Router had at construction, and every global index resolves   *)
(* to the (backend, local index) pair it had at construction.              *)
(***************************************************************************)
C27_IndexSpaceFixed ==
    /\ Router_NumSwitches = Len(Constructed.index)
    /\ \A g \in 0..(Len(Constructed.index) - 1) :
          ref(GoInt(g)) = [ref |-> Constructed.index[g + 1], ok |-> TRUE]
    /\ \A p \in MaxSwitchAnswers :
          /\ p.status = StatusOK
          /\ p.Value = Typed("int32", Len(Constructed.index))

\* /maxswitch answered 3 after a request that connected the backends
C27_Witness ==
    /\ \E p \in MaxSwitchAnswers : p.Value = Typed("int32", 3)
    /\ \A b \in DOMAIN bk : bk[b].connected
    /\ nreq = 2

(***************************************************************************)
(* SpecPairs: requests that carry a parameter several times.  The wire     *)
(* form of a query or form body is a list of key=value pairs in the order  *)
(* the client wrote them; url.ParseQuery folds it into a url.Values map.   *)
(***************************************************************************)
MaxPairs == 2        \* key=value pairs in one request

RECURSIVE ParseQuery(_)
\* url.ParseQuery: m[key] = append(m[key], value), pair by pair
ParseQuery(pairs) ==
    IF pairs = <<>> THEN NoParams
    ELSE LET m == ParseQuery(SubSeq(pairs, 1, Len(pairs) - 1))
             p == pairs[Len(pairs)]
         IN  IF p.key \in DOMAIN m
             THEN [m EXCEPT ![p.key] = Append(@, p.value)]
             ELSE (p.key :> <<p.value>>) @@ m

\* the given, the lower-case and the upper-case spelling of a name
ThreeCases(name) ==
    {name, [i \in 1..Len(name) |-> ToLower(name[i])],
           [i \in 1..Len(name) |-> ToUpper(name[i])]}

PairTexts == {<<"1">>, <<"2">>}

PairLists(name) ==
    UNION {[1..n -> [key : ThreeCases(name), value : PairTexts]] : n \in 1..MaxPairs}

\* the handler of request r, whose wire pairs are pairs, extracts name
ExtractedFrom(r, name, pairs) ==
    /\ \E v \in getParamAnyCase(r, name) :
          ret' = [op |-> "getParamAnyCase", method |-> r.method, name |-> name,
                  pairs |-> pairs, out |-> v]
    /\ resp' = NoResp
    /\ UNCHANGED <<BackendVars, router, calls, serverTransactionID, inflight,
                   issued, nreq, DiscoveryVars>>

ExtractQueryPairs ==
    \E name \in ParamNames : \E pairs \in PairLists(name) :
        ExtractedFrom(HttpGet("/api/v1/switch/0/getswitch", ParseQuery(pairs)),
                      name, pairs)

ExtractFormPairs ==
    \E name \in ParamNames : \E pairs \in PairLists(name) :
        ExtractedFrom(HttpPut("/api/v1/switch/0/setswitch", NoParams, ParseQuery(pairs)),
                      name, pairs)

NextPairs == ExtractQueryPairs \/ ExtractFormPairs

SpecPairs == Init /\ [][NextPairs]_vars

\* the value of the first pair of the request whose key folds to name
FirstMatch(pairs, name) ==
    LET hits == {i \in DOMAIN pairs : EqualFold(pairs[i].key, name)}
    IN  IF hits = {} THEN <<>>
        ELSE pairs[CHOOSE i \in hits : \A j \in hits : i <= j].value

(***************************************************************************)
(* C28: when a request carries a parameter under several keys that differ  *)
(* in letter case only, the value extracted is that of the first such key  *)
(* in the request, and handling the same request again extracts the same   *)
(* value.                                                                  *)
(***************************************************************************)
C28_FirstMatchWins ==
    [][/\ ret'.out = FirstMatch(ret'.pairs, ret'.name)
       /\ (/\ ret.op = "getParamAnyCase" /\ ret.method = ret'.method
           /\ ret.name = ret'.name /\ ret.pairs = ret'.pairs) => ret'.out = ret.out]_vars

\* no reply to the source IP has gone out in the last two seconds
NotSentLately(ip) ==
    \A i \in DOMAIN replies :
        (replies[i].to.ip = ip /\ ~replies[i].err) => now - replies[i].at >= Window

\* the loop has just read a valid probe from the local /24 whose source was
\* sent no reply in the last two seconds
FreshLocalProbeRead ==
    /\ ValidProbeRead
    /\ SharesPrefix(datagram'.src.ip, lanIP)
    /\ NotSentLately(datagram'.src.ip)

\* the turn before this one ended in a read error, or some send has failed
AfterError ==
    \/ nread > 0 /\ ~datagram.read
    \/ \E i \in DOMAIN replies : replies[i].err

\* this turn of the loop handed a reply for the datagram it read to WriteTo
Answers ==
    /\ Len(replies') = Len(replies) + 1
    /\ replies'[Len(replies')].to = datagram'.src

(***************************************************************************)
(* C29: the responder stays in its loop: after a read error or a failed    *)
(* send, a later valid probe from the local /24 whose source was sent no   *)
(* reply in the last 2 seconds is answered.                                *)
(***************************************************************************)
C29_LoopContinues ==
    [][/\ listening => listening'
       /\ (AfterError /\ FreshLocalProbeRead) => Answers]_vars

(***************************************************************************)
(* C30: a valid probe from the local /24 is dropped as a duplicate only if *)
(* a reply to its source IP went out in the last 2 seconds; a reply that   *)
(* failed to send does not count.                                          *)
(***************************************************************************)
C30_OnlySentRepliesSuppress ==
    [][FreshLocalProbeRead => Answers]_vars

\* the keys of recentReplies this step wrote
Written ==
    {ip \in DOMAIN recentReplies' :
        ip \notin DOMAIN recentReplies \/ recentReplies'[ip] # recentReplies[ip]}

(***************************************************************************)
(* C31: a source IP once in recentReplies stays there and its timestamp    *)
(* never decreases; an entry is written only for the source of a probe     *)
(* that begins with the magic string and comes from a local address, on    *)
(* the turn that goes on to send the reply.                                *)
(***************************************************************************)
C31_DedupOnlyGrows ==
    [][/\ \A ip \in DOMAIN recentReplies :
             ip \in DOMAIN recentReplies' /\ recentReplies'[ip] >= recentReplies[ip]
       /\ Written # {} =>
             /\ ValidProbeRead
             /\ IsLoopback(datagram'.src.ip) \/ SharesPrefix(datagram'.src.ip, lanIP)
             /\ Written = {IP_String(datagram'.src.ip)}
             /\ recentReplies'[IP_String(datagram'.src.ip)] = now
             /\ Answers]_vars

(***************************************************************************)
(* SpecSteady: one client on the LAN that sends the probe again and again, *)
(* from either of its ports.                                               *)
(***************************************************************************)
MaxSteady == 3       \* probes the steady client sends

SteadySources == [ip : {<<192, 168, 1, 10>>}, port : SourcePorts]

\* one turn of the loop on a probe of the steady client
SteadyProbe ==
    /\ listening
    /\ nread < MaxSteady
    /\ \E src \in SteadySources : Turn(Magic, src)
    /\ nread' = nread + 1
    /\ UNCHANGED <<HttpVars, apiPort, listening, lanIP, reply, now>>

NextSteady == StartDiscovery \/ SteadyProbe \/ Tick

SpecSteady == InitDiscovery /\ [][NextSteady]_vars

(***************************************************************************)
(* C32: a probe dropped as a duplicate leaves the timestamp of its source  *)
(* as it was, and a valid probe from the local /24 is answered whenever    *)
(* the last reply to its source is 2 seconds old or older, however many    *)
(* probes were dropped in between.                                         *)
(***************************************************************************)
C32_SuppressedDoNotExtend ==
    [][(ValidProbeRead /\ SharesPrefix(datagram'.src.ip, lanIP)) =>
          /\ ~Answers => recentReplies' = recentReplies
          /\ NotAnsweredLately(datagram'.src.ip) => Answers]_vars

\* the client sent three probes: one answered at 0, one dropped, and the
\* one at 2 answered
C32_Witness ==
    /\ nread = 3 /\ now = 2
    /\ datagram.read /\ datagram.at = 2
    /\ Len(replies) = 2
    /\ replies[1].at = 0 /\ ~replies[1].err
    /\ replies[2].at = 2 /\ ~replies[2].err /\ replies[2].to = datagram.src
    /\ recentReplies[IP_String(datagram.src.ip)] = 2

\* switch id of backend b takes the values 0 and 1 only
Binary(b, id) ==
    /\ SwitchBackend_GetMin(Entry, b, id).val = Float64(0)
    /\ SwitchBackend_GetMax(Entry, b, id).val = Float64(1)

(***************************************************************************)
(* C33: in every reachable state, for every binary switch of every         *)
(* backend whose device answers, GetSwitchValue returns 1 if GetSwitch     *)
(* returns true and 0 if it returns false, also after the device changed   *)
(* state by itself.                                                        *)
(***************************************************************************)
C33_ValueMirrorsState ==
    \A b \in DOMAIN bk : \A id \in LocalIDs(b) :
        LET state == SwitchBackend_GetSwitch(Entry, b, id, "ok")
            value == SwitchBackend_GetSwitchValue(Entry, b, id)
        IN  (Binary(b, id) /\ state.err.nil) =>
                /\ value.err.nil
                /\ value.val = Float64(Cached(state.val))

\* this step is a call of SetSwitch or SetSwitchValue that has returned
SetReturns ==
    /\ ret'.seq = ret.seq + 1
    /\ ret'.op \in {"SetSwitch", "SetSwitchValue"}

(***************************************************************************)
(* C34: a SetSwitch or SetSwitchValue whose device command fails, or whose *)
(* local index is invalid, returns an error, and whenever a set returns an *)
(* error the cached value and the name of every switch of every backend    *)
(* are what they were before the call.                                     *)
(***************************************************************************)
C34_FailedSetChangesNothing ==
    [][SetReturns =>
          /\ (ret'.io = <<"fail">> \/ BadLocalID(Entry, ret'.b, ret'.id)) => ~ret'.err.nil
          /\ ~ret'.err.nil =>
                \A b \in DOMAIN bk : \A i \in DOMAIN bk[b].sw :
                    /\ bk'[b].sw[i].Value = bk[b].sw[i].Value
                    /\ bk'[b].sw[i].Name = bk[b].sw[i].Name]_vars

\* a set to off failed at the device after a set to on had succeeded; the
\* cached value is still 1
C34_Witness ==
    /\ ret.seq = 2
    /\ ret.op = "SetSwitch" /\ ret.io = <<"fail">> /\ ~ret.err.nil
    /\ ret.id = 0 /\ ~ret.arg.b
    /\ bk[ret.b].sw[1].Value = 1

\* the SetSwitch goroutines of Mi device id of backend b
MiSetters(b, id) ==
    {g \in Goroutines : g.op = "SetSwitch" /\ g.b = b /\ g.id = id /\ IsMi(World, b)}

NeverRead(b, id) ==
    /\ \A g \in Goroutines : ~(g.op = "GetSwitch" /\ g.b = b /\ g.id = id)
    /\ \A i \in DOMAIN calls :
          ~(calls[i].op = "GetSwitch" /\ calls[i].b = b /\ calls[i].id = id)

(***************************************************************************)
(* C36: on the Hikvision backend, when the SetSwitch calls of a camera     *)
(* have all returned, however they overlapped, and one has succeeded, the  *)
(* cached value is the state the camera was last commanded to.             *)
(***************************************************************************)
C36_CacheFollowsCommands ==
    \A b \in DOMAIN bk : \A id \in LocalIDs(b) :
        (/\ ~IsMi(World, b)
         /\ NeverRead(b, id)
         /\ \A g \in Goroutines : ~(g.op = "SetSwitch" /\ g.b = b /\ g.id = id)
         /\ SetsOf(b, id) # {})
            => bk[b].sw[id + 1].Value = Cached(hw[b][id + 1])

(***************************************************************************)
(* SpecRefresh: the backends called while the refresh goroutines that the  *)
(* Mi Connect started run in the background; nobody but the server         *)
(* switches a device.                                                      *)
(***************************************************************************)
NextRefresh ==
    \/ Backend_Connect \/ Backend_SetSwitch \/ Backend_GetSwitchValue
    \/ \E b \in DOMAIN bk : \E i \in DOMAIN bk[b].sw : miQueryPower(b, i)
    \/ \E b \in DOMAIN bk : \E i \in DOMAIN bk[b].sw : StoreDeviceState(b, i)

SpecRefresh == InitBackend /\ [][NextRefresh]_vars

\* every refresh goroutine of device i of backend b has ended
RefreshDone(b, i) == refresh[b][i] = NoPollers

(***************************************************************************)
(* C37: when the last call was a SetSwitch(i, s) of the Mi backend that    *)
(* succeeded and the background refresh of device i has finished, the      *)
(* cached value of device i is s, also when the refresh was in progress    *)
(* during the set.                                                         *)
(***************************************************************************)
C37_RefreshKeepsSet ==
    (/\ ret.op = "SetSwitch" /\ ret.err.nil
     /\ IsMi(World, ret.b)
     /\ RefreshDone(ret.b, ret.id + 1))
        => bk[ret.b].sw[ret.id + 1].Value = Cached(ret.arg.b)

(***************************************************************************)
(* SpecFanOut: PUT /connected handled by concurrent handler goroutines.    *)
(* A handler inside handleSetConnected's loop is a record of the bag       *)
(* inflight: req its request, arrival its number, connect the parsed       *)
(* parameter, k the backend its loop calls next.                           *)
(***************************************************************************)
\* the PUT /connected requests whose Connected parameter parses
SetConnectedRequests ==
    {r \in ConnectionRequests :
        /\ r.method = "PUT"
        /\ \A c \in getConnected(r) : c.err.nil}

\* connect, err := getConnected(r) with a nil error; the loop is entered
FanOut_Start ==
    /\ nreq < MaxRequests
    /\ \E r \in SetConnectedRequests : \E c \in getConnected(r) :
          inflight' = inflight (+) SetToBag({[req |-> r, arrival |-> nreq + 1,
                                              connect |-> c.v, k |-> 1]})
    /\ nreq' = nreq + 1
    /\ resp' = NoResp
    /\ UNCHANGED <<BackendVars, router, calls, ret, serverTransactionID, issued,
                   DiscoveryVars>>

\* one turn of the loop: b.Connect() or b.Disconnect() on backend k
FanOut_Call(g) ==
    /\ g.k <= Len(Router_Backends)
    /\ \E io \in (IF g.connect THEN ConnectIOs ELSE {<<>>}) :
          LET w == (IF g.connect
                    THEN SwitchBackend_Connect(Entry, Router_Backends[g.k], io)
                    ELSE SwitchBackend_Disconnect(Entry, Router_Backends[g.k])).w
          IN  /\ bk' = w.bk
              /\ hw' = w.hw
              /\ refresh' = w.refresh
    /\ inflight' = (inflight (-) SetToBag({g}))
                   (+) SetToBag({[g EXCEPT !.k = @ + 1]})
    /\ resp' = NoResp
    /\ UNCHANGED <<router, calls, ret, serverTransactionID, issued, nreq,
                   DiscoveryVars>>

\* the loop is over: var resp putResponse; prepareResponse; sendJSON
FanOut_Respond(g) ==
    /\ g.k > Len(Router_Backends)
    /\ \E ctid \in getClientTransactionID(g.req) :
          LET e == prepareResponse(ctid, serverTransactionID)
              p == put(g.req, Entry)
          IN  /\ serverTransactionID' = e.ServerTransactionID
              /\ issued' = Append(issued, e.ServerTransactionID)
              /\ resp' = [sent |-> TRUE, envelope |-> TRUE, req |-> g.req,
                          arrival |-> g.arrival, log |-> <<>>,
                          status |-> p.status,
                          ClientTransactionID |-> e.ClientTransactionID,
                          ServerTransactionID |-> e.ServerTransactionID,
                          ErrorNumber |-> p.ErrorNumber,
                          ErrorMessage |-> p.ErrorMessage, Value |-> p.Value]
    /\ inflight' = inflight (-) SetToBag({g})
    /\ UNCHANGED <<BackendVars, router, calls, ret, nreq, DiscoveryVars>>

NextFanOut ==
    \/ FanOut_Start
    \/ \E g \in BagToSet(inflight) : FanOut_Call(g)
    \/ \E g \in BagToSet(inflight) : FanOut_Respond(g)
    \/ \E b \in DOMAIN bk : \E i \in DOMAIN bk[b].sw : miQueryPower(b, i)
    \/ \E b \in DOMAIN bk : \E i \in DOMAIN bk[b].sw : StoreDeviceState(b, i)

SpecFanOut == Init /\ [][NextFanOut]_vars

(***************************************************************************)
(* C38: whenever no PUT /connected request is in progress, all backends    *)
(* report the same IsConnected() value, also after a PUT connected=true    *)
(* and a PUT connected=false were handled at the same time.                *)
(***************************************************************************)
C38_BackendsAgree ==
    inflight = EmptyBag =>
        \A a, b \in DOMAIN bk :
            SwitchBackend_IsConnected(Entry, a).val = SwitchBackend_IsConnected(Entry, b).val

(***************************************************************************)
(* SpecMi: the Mi backend under concurrent callers, lock by lock.  Every   *)
(* goroutine inside a method of the backend, the refresh goroutine of      *)
(* Connect and the goroutines queryAllDeviceStates starts are records of   *)
(* the bag inflight; pc is where a goroutine stands:                       *)
(*   dlock     before b.deviceLock[id].Lock()                              *)
(*   rlock     before b.mu.RLock()         rheld   holding b.mu for read   *)
(*   io        before the device I/O                                       *)
(*   lock      before b.mu.Lock()          held    holding b.mu for write  *)
(*   wait      in wg.Wait()                                                *)
(*   save      at the call of save()                                       *)
(*   savelock  before save's b.mu.Lock()   saving  save holding b.mu       *)
(* calls lists the goroutines that have ended, by their numbers.           *)
(***************************************************************************)
\* one plug: a goroutine takes the device lock of its own plug only, so the
\* locks of two plugs never wait for each other
MiOnly == <<MiNew(1)>>

InitMi ==
    /\ bk = MiOnly
    /\ hw = HwOff(bk)
    /\ refresh = NoRefresh(bk)
    /\ router = NewRouter([bk |-> bk, hw |-> hw, refresh |-> refresh, calls |-> <<>>],
                          InOrder(Len(bk)))
    /\ calls = <<>>
    /\ ret = NoRet
    /\ ServerFresh

MiFrame == <<router, ret, serverTransactionID, resp, issued, refresh, DiscoveryVars>>

MiGoroutine(n, op, id, state, pc, parent) ==
    [n |-> n, op |-> op, id |-> id, state |-> state, pc |-> pc, parent |-> parent]

\* goroutine g goes on to pc, and the goroutines of the set started start
MiNext(g, pc, started) ==
    /\ inflight' = (inflight (-) SetToBag({g}))
                   (+) SetToBag({[g EXCEPT !.pc = pc]} \cup started)
    /\ calls' = calls

\* the list of the ended goroutines with e added, kept in the order of their
\* numbers
Ended(list, e) ==
    LET before == SelectSeq(list, LAMBDA c : c.n < e.n)
        after == SelectSeq(list, LAMBDA c : c.n > e.n)
    IN  before \o <<e>> \o after

\* goroutine g ends, and the goroutines of the set started start
MiEnd(g, started) ==
    /\ inflight' = (inflight (-) SetToBag({g})) (+) SetToBag(started)
    /\ calls' = Ended(calls, [n |-> g.n, op |-> g.op])

\* a handler goroutine calls a method of the backend
Mi_Call ==
    /\ nreq < MaxRequests
    /\ nreq' = nreq + 1
    /\ \E op \in {"SetSwitch", "SetName", "Connect", "Disconnect", "GetSwitchValue"} :
       \E id \in LocalIDs(1) : \E state \in BOOLEAN :
          /\ op \in {"Connect", "Disconnect"} => id = 0
          /\ op # "SetSwitch" => ~state
          /\ inflight' = inflight (+) SetToBag({
                MiGoroutine(StartedCalls + 1, op, id, state,
                            IF op = "SetSwitch" THEN "dlock"
                            ELSE IF op = "GetSwitchValue" THEN "rlock" ELSE "lock", 0)})
    /\ UNCHANGED <<bk, hw, calls, MiFrame>>

\* b.deviceLock[id] is held by a SetSwitch from Lock() to its return
MiDeviceLockHeld(id) ==
    \E h \in Goroutines : h.op = "SetSwitch" /\ h.id = id /\ h.pc # "dlock"

\* mutant: b.mu.Unlock() is deferred to the return of the method
MuWriter_deferred(g) == g.pc \in {"held", "save", "savelock", "saving"}

\* g holds b.mu for writing
MuWriter(g) == g.pc \in {"held", "saving"}

\* g holds b.mu for reading
MuReader(g) == g.pc = "rheld"

\* b.deviceLock[id].Lock() returns
Mi_DeviceLock(g) ==
    /\ g.pc = "dlock"
    /\ ~MiDeviceLockHeld(g.id)
    /\ MiNext(g, "rlock", {})
    /\ UNCHANGED <<bk, hw, nreq, MiFrame>>

\* b.mu.RLock() returns
Mi_RLock(g) ==
    /\ g.pc = "rlock"
    /\ \A h \in Goroutines : ~MuWriter(h)
    /\ MiNext(g, "rheld", {})
    /\ UNCHANGED <<bk, hw, nreq, MiFrame>>

\* the read under b.mu.RLock() and b.mu.RUnlock(): SetSwitch has its copy of
\* the devices, GetSwitchValue returns, queryAllDeviceStates starts one
\* goroutine per device and waits for them
Mi_RUnlock(g) ==
    /\ g.pc = "rheld"
    /\ IF g.op = "SetSwitch" THEN MiNext(g, "io", {})
       ELSE IF g.op = "refresh"
       THEN MiNext(g, "wait",
                   {MiGoroutine(StartedCalls + i, "query", i - 1, FALSE, "io", g.n) :
                       i \in DOMAIN bk[1].sw})
       ELSE MiEnd(g, {})
    /\ UNCHANGED <<bk, hw, nreq, MiFrame>>

\* miOnOff or miQueryPower returns: the device answered or it did not
Mi_DeviceIO(g) ==
    /\ g.pc = "io"
    /\ \E io \in IOs :
          IF g.op = "SetSwitch"
          THEN LET r == miOnOff(World, 1, g.id, g.state, io)
               IN  /\ hw' = r.w.hw
                   /\ IF r.err.nil THEN MiNext(g, "lock", {}) ELSE MiEnd(g, {})
          ELSE /\ hw' = hw
               /\ IF io = "ok"
                  THEN /\ inflight' = (inflight (-) SetToBag({g}))
                                      (+) SetToBag({[g EXCEPT !.pc = "lock",
                                                              !.state = hw[1][g.id + 1]]})
                       /\ calls' = calls
                  ELSE MiEnd(g, {})
    /\ UNCHANGED <<bk, nreq, MiFrame>>

\* b.mu.Lock() returns, in a method or in save
Mi_Lock(g) ==
    /\ g.pc \in {"lock", "savelock"}
    /\ \A h \in Goroutines : ~MuWriter(h) /\ ~MuReader(h)
    /\ MiNext(g, IF g.pc = "lock" THEN "held" ELSE "saving", {})
    /\ UNCHANGED <<bk, hw, nreq, MiFrame>>

\* the write under b.mu.Lock() and b.mu.Unlock(); Connect then starts the
\* refresh goroutine and returns, a query goroutine ends
Mi_Unlock(g) ==
    /\ g.pc = "held"
    /\ bk' = CASE g.op \in {"SetSwitch", "query"} ->
                     SetField(World, 1, g.id, "Value", IF g.state THEN 1 ELSE 0).bk
               [] g.op = "SetName" -> SetField(World, 1, g.id, "Name", <<"A">>).bk
               [] g.op = "Connect" -> [bk EXCEPT ![1].connected = TRUE]
               [] g.op = "Disconnect" -> [bk EXCEPT ![1].connected = FALSE]
    /\ IF g.op = "Connect"
       THEN MiEnd(g, {MiGoroutine(StartedCalls + 1, "refresh", 0, FALSE, "rlock", g.n)})
       ELSE IF g.op = "query" THEN MiEnd(g, {})
       ELSE MiNext(g, "save", {})
    /\ UNCHANGED <<hw, nreq, MiFrame>>

\* wg.Wait() returns: every goroutine queryAllDeviceStates started has ended
Mi_Wait(g) ==
    /\ g.pc = "wait"
    /\ \A h \in Goroutines : h.parent # g.n
    /\ MiNext(g, "save", {})
    /\ UNCHANGED <<bk, hw, nreq, MiFrame>>

\* save(): with an empty savePath it returns at once, with a savePath it
\* goes on to b.mu.Lock(); then the method, or the refresh goroutine, ends
Mi_Save(g) ==
    /\ g.pc = "save"
    /\ MiEnd(g, {}) \/ MiNext(g, "savelock", {})
    /\ UNCHANGED <<bk, hw, nreq, MiFrame>>

\* save wrote the file: the deferred b.mu.Unlock(), and the goroutine ends
Mi_Saved(g) ==
    /\ g.pc = "saving"
    /\ MiEnd(g, {})
    /\ UNCHANGED <<bk, hw, nreq, MiFrame>>

MiStep(g) ==
    \/ Mi_DeviceLock(g) \/ Mi_RLock(g) \/ Mi_RUnlock(g) \/ Mi_DeviceIO(g)
    \/ Mi_Lock(g) \/ Mi_Unlock(g) \/ Mi_Wait(g) \/ Mi_Save(g) \/ Mi_Saved(g)

\* a goroutine that can run does
MiAdvance == \E g \in Goroutines : MiStep(g)

NextMi ==
    \/ Mi_Call
    \/ \E g \in Goroutines : Mi_DeviceLock(g)
    \/ \E g \in Goroutines : Mi_RLock(g)
    \/ \E g \in Goroutines : Mi_RUnlock(g)
    \/ \E g \in Goroutines : Mi_DeviceIO(g)
    \/ \E g \in Goroutines : Mi_Lock(g)
    \/ \E g \in Goroutines : Mi_Unlock(g)
    \/ \E g \in Goroutines : Mi_Wait(g)
    \/ \E g \in Goroutines : Mi_Save(g)
    \/ \E g \in Goroutines : Mi_Saved(g)

SpecMi == InitMi /\ [][NextMi]_vars /\ WF_vars(MiAdvance)

\* g waits for b.mu or for a device lock that it cannot have now
Blocked(g) ==
    \/ g.pc = "dlock" /\ MiDeviceLockHeld(g.id)
    \/ g.pc = "rlock" /\ \E h \in Goroutines : MuWriter(h)
    \/ g.pc \in {"lock", "savelock"} /\ \E h \in Goroutines : MuWriter(h) \/ MuReader(h)

(***************************************************************************)
(* C39: with every device I/O returning, under any interleaving of         *)
(* SetSwitch, SetName, Connect with its refresh and save, Disconnect and   *)
(* reads of the Mi backend, the goroutines in progress are never all       *)
(* waiting for b.mu or a device lock, and again and again every goroutine  *)
(* that was started has ended.                                             *)
(***************************************************************************)
C39_MiNeverDeadlocks ==
    /\ [](Goroutines # {} => \E g \in Goroutines : ~Blocked(g))
    /\ []<>(\A k \in 1..StartedCalls : Finished(k))

\* a SetSwitch of plug 0 waits for b.mu, which a goroutine of the refresh
\* holds, while it holds the lock of plug 0
C39_Witness ==
    \E g, h \in Goroutines :
        /\ g.op = "SetSwitch" /\ g.id = 0 /\ g.pc = "lock"
        /\ h.op = "query" /\ h.pc = "held"

====
